---- MODULE Spec2Model ----
(***************************************************************************)
(* Model of the cut-search core of the circuit-knitting toolbox:           *)
(*   - BestFirstPriorityQueue and BestFirstSearch                          *)
(*     (cut_finding/best_first_search.py)                                  *)
(*   - the search-space functions and the CutOptimization driver           *)
(*     (cut_finding/cut_optimization.py)                                   *)
(* The sub-circuits state, the cut actions and the greedy pre-pass live in *)
(* modules that are not part of the sources at hand                        *)
(* (disjoint_subcircuits_state, cutting_actions, cco_utils); they are      *)
(* modelled from the specification, sections 3, 4.D, 4.E and 4.H.          *)
(***************************************************************************)
EXTENDS Integers, Sequences, FiniteSets, TLC

(***************************************************************************)
(* Python's None, one value per type of the slot that holds it.            *)
(***************************************************************************)
NoneInt == 0 - 1
NoneCost == << >>
NoneState == [isnone |-> TRUE]

\* np.inf in the second slot of a cost tuple
Inf == 1000

(***************************************************************************)
(* Bounds of the model.                                                    *)
(***************************************************************************)
MaxGates == 3
MaxPasses == 4
MaxBackjumpLimit == 2
MaxUpdates == 1

\* The qubits of the input circuits and the two-qubit gates on them.
Qubits == {0, 1, 2, 3}
NumQubits == Cardinality(Qubits)
QubitPairs == {<<0, 1>>, <<1, 2>>, <<2, 3>>}
Circuits == UNION {[1..n -> QubitPairs] : n \in 0..MaxGates}
QpuWidths == {1, 2, 3}
Seeds == {1, 2}
\* the seed of the runs of a single driver
FirstSeed == CHOOSE s \in Seeds : \A t \in Seeds : s <= t
MaxGammas == {NoneInt, 1, 3}
BackjumpLimits == {NoneInt} \cup 0..MaxBackjumpLimit
DriverIds == {1, 2}

(***************************************************************************)
(* Lexicographic order on cost tuples (Python tuple comparison).           *)
(***************************************************************************)
CostLT(a, b) == a[1] < b[1] \/ (a[1] = b[1] /\ a[2] < b[2])
CostLE(a, b) == a = b \/ CostLT(a, b)

(***************************************************************************)
(* Circuit view: the list [index, gate, constraints] of multi-qubit gates. *)
(***************************************************************************)
MultiqubitGates(c) ==
    [k \in 1..Len(c) |->
        [index |-> k - 1,
         gate |-> [name |-> IF Len(c[k]) = 2 THEN "cx" ELSE "ccx", qubits |-> c[k]],
         constraints |-> NoneInt]]

(***************************************************************************)
(* Sub-circuits state (specification section 3 and 4.E).                   *)
(***************************************************************************)
GateCutGamma == 3
WireCutGammaLB == 3
WireCutGammaUB == 4

InitialState(nq, mwc) ==
    [isnone |-> FALSE,
     uptree |-> [w \in 0..(nq - 1) |-> w],
     width |-> [w \in 0..(nq - 1) |-> 1],
     wiremap |-> [q \in 0..(nq - 1) |-> q],
     num_qubits |-> nq,
     num_wires |-> nq,
     max_wire_cuts |-> mwc,
     bell_pairs |-> << >>,
     gamma_LB |-> 1,
     gamma_UB |-> 1,
     search_level |-> 0,
     actions |-> << >>]

RECURSIVE FindRoot(_, _)
FindRoot(s, w) == IF s.uptree[w] = w THEN w ELSE FindRoot(s, s.uptree[w])

Roots(s) == {w \in DOMAIN s.uptree : s.uptree[w] = w}

SetMax(S) == CHOOSE m \in S : \A x \in S : x <= m

GetMaxWidth(s) == SetMax({s.width[r] : r \in Roots(s)})

LowerBoundGamma(s) == s.gamma_LB
UpperBoundGamma(s) == s.gamma_UB

\* merge(a, b): b's tree is hung under a; the caller has checked the width
MergeRoots(s, r1, r2) ==
    [s EXCEPT !.uptree[r2] = r1,
              !.width[r1] = s.width[r1] + s.width[r2],
              !.width[r2] = 0]

\* a budget check that lets one wire too many through
CanAddWires_OneMore(s, n) == s.num_wires - s.num_qubits + n <= s.max_wire_cuts + 1

CanAddWires(s, n) == s.num_wires - s.num_qubits + n <= s.max_wire_cuts

\* a fresh wire for qubit q, in a sub-circuit of its own
NewWire(s, q) ==
    LET w == s.num_wires
    IN [s EXCEPT !.uptree = [x \in 0..w |-> IF x = w THEN w ELSE s.uptree[x]],
                 !.width = [x \in 0..w |-> IF x = w THEN 1 ELSE s.width[x]],
                 !.wiremap[q] = w,
                 !.num_wires = w + 1]

Advance(s) == [s EXCEPT !.search_level = s.search_level + 1]

AddAction(s, gate_spec, name, payload) ==
    [s EXCEPT !.actions = Append(s.actions, <<gate_spec.index, name, payload>>)]

(***************************************************************************)
(* Action catalogue (specification section 4.D).  Each action maps a       *)
(* state and a gate to the list of its successors.                         *)
(***************************************************************************)
\* a merge that does not look at the width of the QPU
ActionNone_AnyWidth(s, gate_spec, qpu_width) ==
    LET r1 == FindRoot(s, s.wiremap[gate_spec.gate.qubits[1]])
        r2 == FindRoot(s, s.wiremap[gate_spec.gate.qubits[2]])
    IN IF r1 = r2 THEN << Advance(s) >> ELSE << Advance(MergeRoots(s, r1, r2)) >>

ActionNone(s, gate_spec, qpu_width) ==
    LET r1 == FindRoot(s, s.wiremap[gate_spec.gate.qubits[1]])
        r2 == FindRoot(s, s.wiremap[gate_spec.gate.qubits[2]])
    IN IF r1 = r2 THEN << Advance(s) >>
       ELSE IF s.width[r1] + s.width[r2] <= qpu_width
            THEN << Advance(MergeRoots(s, r1, r2)) >>
            ELSE << >>

ActionGateCut(s, gate_spec, qpu_width) ==
    LET r1 == FindRoot(s, s.wiremap[gate_spec.gate.qubits[1]])
        r2 == FindRoot(s, s.wiremap[gate_spec.gate.qubits[2]])
        cut == [s EXCEPT !.gamma_LB = s.gamma_LB * GateCutGamma,
                         !.gamma_UB = s.gamma_UB * GateCutGamma,
                         !.bell_pairs = Append(s.bell_pairs, <<r1, r2>>)]
    IN IF r1 = r2 THEN << >>
       ELSE << Advance(AddAction(cut, gate_spec, "GateCut", << >>)) >>

\* the wire of the qubit on `side` is cut; the new wire takes the gate
WireCutSide(s, gate_spec, qpu_width, side) ==
    LET q == gate_spec.gate.qubits[side]
        other == gate_spec.gate.qubits[3 - side]
        w == s.wiremap[q]
        ro == FindRoot(s, s.wiremap[other])
        n == NewWire(s, q)
        wnew == s.num_wires
        cut == [MergeRoots(n, ro, wnew)
                    EXCEPT !.gamma_LB = s.gamma_LB * WireCutGammaLB,
                           !.gamma_UB = s.gamma_UB * WireCutGammaUB]
    IN IF ~CanAddWires(s, 1) THEN << >>
       ELSE IF s.width[ro] + 1 > qpu_width THEN << >>
       ELSE << Advance(AddAction(cut, gate_spec, "WireCut", <<side, w, wnew>>)) >>

ActionWireCut(s, gate_spec, qpu_width) ==
    WireCutSide(s, gate_spec, qpu_width, 1) \o WireCutSide(s, gate_spec, qpu_width, 2)

\* a no-cost merge, offered only when the qubits already share a partition
ActionAbsorbGate(s, gate_spec, qpu_width) ==
    LET rs == {FindRoot(s, s.wiremap[gate_spec.gate.qubits[k]]) :
                  k \in 1..Len(gate_spec.gate.qubits)}
    IN IF Cardinality(rs) = 1 THEN << Advance(s) >> ELSE << >>

ActionNextState(name, s, gate_spec, qpu_width) ==
    CASE name = "None" -> ActionNone(s, gate_spec, qpu_width)
      [] name = "GateCut" -> ActionGateCut(s, gate_spec, qpu_width)
      [] name = "WireCut" -> ActionWireCut(s, gate_spec, qpu_width)
      [] name = "AbsorbGate" -> ActionAbsorbGate(s, gate_spec, qpu_width)

\* get_group: the action names of a group, in catalogue order
GetGroup(group) ==
    IF group = "TwoQubitGates" THEN <<"None", "GateCut", "WireCut">>
    ELSE <<"AbsorbGate">>

\* get_action_subset: constraints None leaves the group as it is
GetActionSubset(action_list, constraints) ==
    IF constraints = NoneInt THEN action_list
    ELSE SelectSeq(action_list, LAMBDA a : a \in constraints)

(***************************************************************************)
(* Search-space functions (cut_optimization.py).  func_args is the record  *)
(* [entangling_gates, max_gamma, qpu_width].                               *)
(***************************************************************************)
\* a cost whose second component counts the sub-circuits instead of their width
cut_optimization_cost_func_Subcircuits(state, func_args) ==
    <<LowerBoundGamma(state), Cardinality(Roots(state))>>

cut_optimization_cost_func(state, func_args) ==
    <<LowerBoundGamma(state), GetMaxWidth(state)>>

cut_optimization_upper_bound_cost_func(goal_state, func_args) ==
    <<UpperBoundGamma(goal_state), Inf>>

cut_optimization_min_cost_bound_func(func_args) ==
    IF func_args.max_gamma = NoneInt THEN NoneCost
    ELSE <<func_args.max_gamma, Inf>>

RECURSIVE ExtendAll(_, _, _, _)
ExtendAll(action_list, k, state, func_args) ==
    IF k > Len(action_list) THEN << >>
    ELSE ActionNextState(action_list[k], state,
                         func_args.entangling_gates[state.search_level + 1],
                         func_args.qpu_width)
         \o ExtendAll(action_list, k + 1, state, func_args)

\* successors generated for a QPU one qubit wider than the device's
cut_optimization_next_state_func_Wider(state, func_args) ==
    LET gate_spec == func_args.entangling_gates[state.search_level + 1]
        action_list == GetActionSubset(GetGroup("TwoQubitGates"), gate_spec.constraints)
    IN ExtendAll(action_list, 1, state, [func_args EXCEPT !.qpu_width = @ + 1])

\* a successor function that accepts a gate on any number of qubits
NextStateRaises_Never(state, func_args) == FALSE

\* cut_optimization_next_state_func raises ValueError instead of returning:
\* the gate at the search level does not act on exactly two qubits
NextStateRaises(state, func_args) ==
    Len(func_args.entangling_gates[state.search_level + 1].gate.qubits) # 2

cut_optimization_next_state_func(state, func_args) ==
    LET gate_spec == func_args.entangling_gates[state.search_level + 1]
        action_list == GetActionSubset(GetGroup("TwoQubitGates"), gate_spec.constraints)
    IN ExtendAll(action_list, 1, state, func_args)

\* a goal test that is satisfied one gate early
cut_optimization_goal_state_func_Early(state, func_args) ==
    state.search_level + 1 >= Len(func_args.entangling_gates)

cut_optimization_goal_state_func(state, func_args) ==
    state.search_level >= Len(func_args.entangling_gates)

(***************************************************************************)
(* BestFirstPriorityQueue.  The engine record e carries the queue's three  *)
(* members: pqueue, random_gen and unique.  random_gen is the state of     *)
(* np.random.default_rng(seed): the seed of its stream, the number of       *)
(* values drawn from it and, for a generator seeded from the entropy of    *)
(* the system (seed None), the values it yields next.  Pcg64Draws holds    *)
(* the head of the stream of each seed, the values of Generator.random()   *)
(* of numpy's PCG64 behind SeedSequence(seed), each written as             *)
(* floor(value * 10^9).  The values of an entropy-seeded generator are not *)
(* fixed by the inputs: each is any value of the range.  A value is only   *)
(* ever compared with the values of the queued entries of the same cost    *)
(* and depth, so one value is taken for each place among those.            *)
(***************************************************************************)
\* random() * 10^9 lies in 0 .. RandRange - 1
RandRange == 1000000000

Pcg64Draws(stream) ==
    CASE stream = 1 ->
          <<511821624, 950463696, 144159612, 948649447, 311831452, 423326448,
            827702593, 409199136, 549593687, 27559113, 753513108, 538143313,
            329731716, 788428703, 303194829, 453497889, 134041697, 403112986,
            203455240, 262313340, 750364672, 280408757, 485190974, 980737199,
            961657193, 724789940, 541226855, 276891204, 160652008, 969925413,
            516068585, 115865612, 623489755, 776683114, 613003301, 917297704,
            39592876, 528589263, 459335882, 62349579, 641328169, 852632838,
            592941018, 260097447, 839881521, 509495881, 510888884, 753030207,
            147922035, 819626719, 683286906, 787096941, 191616259, 802364161,
            191323926, 81552617, 855226974, 861283496, 876537096, 471909719,
            274048388, 7091828, 645720895, 719909383, 835569216, 281877827,
            215218167, 639331380, 805054833, 963670872, 150524830, 482212388,
            894715862, 422716906, 589502062, 24490677, 673459887, 919088619,
            826825329, 885520266, 660355380, 245552267, 768516998, 211674742,
            831274834, 62717922, 825487813, 164507266, 375146996, 316738166,
            691337035, 178571878, 396256162, 5824595, 262494712, 421188814,
            105921236, 633159946, 380424269, 725293938, 653866011, 431226748,
            867320505, 632135117, 810274352, 341794723, 543669289, 196296885,
            996141190, 243215464, 256867467, 73190072, 257803118, 763128532,
            697893570, 128673212, 376238501, 420921394, 664984246, 455928963,
            586518326, 839684603, 726473610, 365007263, 448396309, 367699569,
            109734664, 203241544, 283806488, 314133895, 313047858, 576699716,
            971689975, 774664134, 791133948, 759268500, 596987730, 917692257,
            689630155, 500356430, 77083808, 488449227, 212830995, 132696297,
            506064922, 785085292, 295006442, 768771759, 525629523, 149048023,
            964967743, 401636223, 295234255, 846998370, 124460332, 733590461,
            187824742, 392491776, 231899878, 841227992, 390074551, 974692812,
            625261484, 693622834, 521525122, 308968199, 395556421, 940934187,
            201203200, 988218901, 758305862, 359786926, 641513589, 380981539,
            381492932, 503802950, 16722821, 493571559, 971598413, 285465228,
            748217959, 442788890, 209281042, 905002570, 16827284, 303508926,
            999025882, 262146796, 849044521, 605683148, 806035707, 630317755,
            362696857, 760788784, 26484548, 446812951, 371854569, 477074005,
            127620686, 222506865, 562051590, 387769115, 791656205, 605136589,
            861266684, 732360837, 601823447, 287615602, 782760467, 251267578,
            75211111, 962864578, 540011205, 773894297, 529222807, 611579730,
            33892250, 186793679, 674689395, 570564597, 158555033, 952029268,
            154353632, 510303249, 144002875, 717371726, 276313014, 134133975,
            45987180, 174835537, 191798716, 536972079, 451038886, 957294367,
            954151336, 796546110, 671587633, 845023091, 938751828, 22617728>>
      [] stream = 2 ->
          <<261612134, 298491143, 814225740, 91915942, 600100525, 728560526,
            187901073, 55146627, 274969367, 657433014, 562265662, 150062263,
            432630790, 669297298, 422784673, 633184399, 967435952, 683064822,
            391624833, 187252569, 345960665, 511065973, 891209409, 775563942,
            318146600, 924216896, 470909885, 693758842, 107207308, 104543558,
            201907447, 884449673, 679811461, 849236323, 644436269, 406542397,
            516578194, 593443517, 862117984, 438186166, 892240109, 613716938,
            829356125, 498056054, 692518131, 339025374, 522828503, 216223391,
            100703602, 38604129, 701949476, 456430620, 897734147, 835183204,
            385095134, 973678769, 592062011, 765883314, 407194358, 196169911,
            171777015, 181206226, 603805517, 112632855, 19910748, 832996964,
            99411117, 450584535, 488498573, 620272408, 504014482, 937343143,
            750396594, 574466497, 617272136, 506551491, 964761808, 226626063,
            689027137, 555096678, 42011789, 296149999, 927166935, 784564857,
            12831093, 296626329, 9805349, 827466942, 110367592, 57455178,
            981883343, 445869879, 318392999, 49013389, 389595284, 366039057,
            523480788, 6785466, 147962880, 209886525, 440504518, 302303366,
            613327676, 285432605, 909633010, 961869958, 59434865, 209059719,
            563023183, 770660229, 64024231, 184802684, 456720121, 668690758,
            903327926, 866972963, 793755415, 52732143, 976636493, 614627949,
            86115815, 254928775, 620754084, 385640116, 446603475, 804585065,
            824030977, 546786980, 792451104, 406004929, 974481837, 605159165,
            967697982, 43987692, 882692652, 559377187, 713639030, 192594975,
            548691375, 289277924, 105480476, 3186770, 906840019, 670904315,
            205021731, 257818677, 465594311, 818287253, 117625602, 967784830,
            943910766, 244660095, 640781859, 360097532, 697323344, 86916100,
            469965880, 588490803, 626475735, 692795474, 891381373, 241250209,
            153194317, 390606937, 568828147, 960528760, 710505585, 738442550,
            972717053, 267743162, 259461625, 422540837, 295420007, 651103385,
            951713920, 153511492, 517947682, 677578098, 493177666, 913743840,
            736897986, 882176795, 111764988, 195763503, 65704225, 829319498,
            962818661, 13991021, 789253643, 727831198, 908186794, 270385473,
            714777183, 237422881, 76033200, 745204062, 42212971, 699594463,
            283462464, 487423395, 891533153, 243407879, 468324381, 355049447,
            190380886, 473651468, 181630327, 799007491, 614821641, 283130752,
            973104995, 345276844, 671256661, 733223726, 265226390, 11763801,
            892615876, 956416513, 170228083, 153605211, 432667419, 597569568,
            988982627, 963496117, 987852839, 245569415, 598883201, 435869143,
            231402295, 65377370, 168728373, 358451728, 88021730, 150738991,
            44651485, 622906273, 492716479, 243553003, 526348739, 424446777>>

\* a queue that builds its generator without the seed: default_rng()
DefaultRng_SeedNotPassed(seed) ==
    {[stream |-> NoneInt, drawn |-> 0, next |-> <<(RandRange - 1) \div 2>>]}

\* the values an entropy-seeded generator may yield for an entry of the cost
\* and depth of key: the values of the queued keys of that cost and depth,
\* one value between each two neighbours among them, one below and one above
\* them all
Between(keys, key) ==
    LET tied == {x.rand : x \in {y \in keys : y.cost = key.cost
                                              /\ y.neg_depth = key.neg_depth}}
        marks == tied \cup {0 - 1, RandRange}
        above(lo) == CHOOSE hi \in marks : hi > lo /\ \A m \in marks : m > lo => hi <= m
    IN tied \cup {(lo + above(lo)) \div 2 :
                    lo \in {m \in marks \ {RandRange} : above(m) - m >= 2}}

\* np.random.default_rng(seed): the stream of the seed, or with seed None a
\* generator seeded from the entropy of the system, about to yield some value
DefaultRng(seed) ==
    IF seed = NoneInt
    THEN {[stream |-> NoneInt, drawn |-> 0, next |-> <<v>>] :
             v \in Between({}, [cost |-> NoneCost, neg_depth |-> 0])}
    ELSE {[stream |-> seed, drawn |-> 0, next |-> << >>]}

\* the values an entropy-seeded generator may yield for the entries of the
\* costs and depths of puts[k], puts[k + 1], ... pushed in this order on keys
RECURSIVE EntropyValues(_, _, _)
EntropyValues(keys, puts, k) ==
    IF k > Len(puts) THEN {<< >>}
    ELSE UNION {{<<v>> \o rest :
                    rest \in EntropyValues(keys \cup {[cost |-> puts[k].cost,
                                                       neg_depth |-> puts[k].neg_depth,
                                                       rand |-> v]},
                                           puts, k + 1)} :
                v \in Between(keys, puts[k])}

\* the queue e about to push entries of the costs and depths of puts on the
\* entries keys: a seeded generator yields what its stream holds, an
\* entropy-seeded one any values
Drawing(e, keys, puts) ==
    IF e.random_gen.stream # NoneInt THEN {e}
    ELSE {[e EXCEPT !.random_gen.next = vs] : vs \in EntropyValues(keys, puts, 1)}

\* the value random() returns next
RandomValue(g) ==
    IF g.stream = NoneInt THEN Head(g.next) ELSE Pcg64Draws(g.stream)[g.drawn + 1]

\* the generator after one more random()
NextRandom(g) ==
    [g EXCEPT !.drawn = @ + 1, !.next = IF @ = << >> THEN @ ELSE Tail(@)]

\* a queue keyed (neg_depth, cost, rand, seq): depth is compared before cost
EntryLT_DepthFirst(x, y) ==
    \/ x.neg_depth < y.neg_depth
    \/ /\ x.neg_depth = y.neg_depth
       /\ \/ CostLT(x.cost, y.cost)
          \/ /\ x.cost = y.cost
             /\ \/ x.rand < y.rand
                \/ (x.rand = y.rand /\ x.seq < y.seq)

\* a queue keyed (cost, depth, rand, seq): the depth is pushed with its own sign
EntryLT_ShallowFirst(x, y) ==
    \/ CostLT(x.cost, y.cost)
    \/ /\ x.cost = y.cost
       /\ \/ x.neg_depth > y.neg_depth
          \/ /\ x.neg_depth = y.neg_depth
             /\ \/ x.rand < y.rand
                \/ (x.rand = y.rand /\ x.seq < y.seq)

\* tuple comparison of (cost, neg_depth, rand, seq); seq is unique
EntryLT(x, y) ==
    \/ CostLT(x.cost, y.cost)
    \/ /\ x.cost = y.cost
       /\ \/ x.neg_depth < y.neg_depth
          \/ /\ x.neg_depth = y.neg_depth
             /\ \/ x.rand < y.rand
                \/ (x.rand = y.rand /\ x.seq < y.seq)

\* BestFirstPriorityQueue(seed), with g0 the state of the freshly seeded generator
QueueNew(g0) == [pqueue |-> {}, random_gen |-> g0, unique |-> 0]

QueuePut(e, state, depth, cost) ==
    LET g == NextRandom(e.random_gen)
    IN [e EXCEPT !.pqueue = @ \cup {[cost |-> cost, neg_depth |-> 0 - depth,
                                     rand |-> RandomValue(e.random_gen),
                                     seq |-> e.unique,
                                     state |-> state]},
                 !.random_gen = g,
                 !.unique = @ + 1]

QueueBest(pq) == CHOOSE x \in pq : \A y \in pq \ {x} : EntryLT(x, y)

\* a get() that reads the least entry and leaves it on the heap
QueueGet_Peek(e) ==
    LET best == QueueBest(e.pqueue)
    IN IF e.pqueue = {}
       THEN [state |-> NoneState, depth |-> NoneInt, cost |-> NoneCost, e |-> e]
       ELSE [state |-> best.state, depth |-> 0 - best.neg_depth, cost |-> best.cost,
             e |-> e]

\* get(): the heap's least entry, as (state, depth, cost), and the queue without it
QueueGet(e) ==
    LET best == QueueBest(e.pqueue)
    IN IF e.pqueue = {}
       THEN [state |-> NoneState, depth |-> NoneInt, cost |-> NoneCost, e |-> e]
       ELSE [state |-> best.state, depth |-> 0 - best.neg_depth, cost |-> best.cost,
             e |-> [e EXCEPT !.pqueue = @ \ {best}]]

\* a clear() that also starts the counter of pushes again
QueueClear_Reset(e) == [e EXCEPT !.pqueue = {}, !.unique = 0]

\* clear(): the list is emptied; the counter and the generator are left alone
QueueClear(e) == [e EXCEPT !.pqueue = {}]

QueueSize(e) == Cardinality(e.pqueue)

(***************************************************************************)
(* BestFirstSearch.                                                        *)
(***************************************************************************)
\* no function given: SearchFunctions(upperbound_cost_func=None)
NoneFunc == "None"

\* the upper-bound function of cut_optimization_search_funcs
UpperBoundFunc == "cut_optimization_upper_bound_cost_func"

\* the engine built on cut_optimization_search_funcs
BestFirstSearchNew(seed, max_backjumps, stop_at_first_min, g0) ==
    [seed |-> seed,
     upperbound_cost_func |-> UpperBoundFunc,
     stop_at_first_min |-> stop_at_first_min,
     max_backjumps |-> max_backjumps,
     pqueue |-> {},
     random_gen |-> g0,
     unique |-> 0,
     upperbound_cost |-> NoneCost,
     mincost_bound |-> NoneCost,
     min_reached |-> FALSE,
     num_states_visited |-> 0,
     num_next_states |-> 0,
     num_enqueues |-> 0,
     num_backjumps |-> 0,
     penultimate_stats |-> NoneCost,
     prev_depth |-> NoneInt]

GetStats(e) ==
    <<e.num_states_visited, e.num_next_states, e.num_enqueues, e.num_backjumps>>

\* get_stats(penultimate=True)
GetStatsPenultimate(e) == e.penultimate_stats

\* a put that also discards the states whose cost equals the upper bound
PutOne_Strict(e, state, depth, func_args) ==
    LET cost == cut_optimization_cost_func(state, func_args)
    IN IF e.upperbound_cost = NoneCost \/ CostLT(cost, e.upperbound_cost)
       THEN [QueuePut(e, state, depth, cost) EXCEPT !.num_enqueues = @ + 1]
       ELSE e

\* a put that queues the states without counting them
PutOne_Uncounted(e, state, depth, func_args) ==
    LET cost == cut_optimization_cost_func(state, func_args)
    IN IF e.upperbound_cost = NoneCost \/ CostLE(cost, e.upperbound_cost)
       THEN QueuePut(e, state, depth, cost)
       ELSE e

PutOne(e, state, depth, func_args) ==
    LET cost == cut_optimization_cost_func(state, func_args)
    IN IF e.upperbound_cost = NoneCost \/ CostLE(cost, e.upperbound_cost)
       THEN [QueuePut(e, state, depth, cost) EXCEPT !.num_enqueues = @ + 1]
       ELSE e

RECURSIVE PutFrom(_, _, _, _, _)
PutFrom(e, state_list, k, depth, func_args) ==
    IF k > Len(state_list) THEN e
    ELSE PutFrom(PutOne(e, state_list[k], depth, func_args),
                 state_list, k + 1, depth, func_args)

EnginePut(e, state_list, depth, func_args) ==
    PutFrom([e EXCEPT !.num_next_states = @ + Len(state_list)],
            state_list, 1, depth, func_args)

Initialize(e, initial_state_list, func_args) ==
    LET c == [QueueClear(e) EXCEPT
                       !.upperbound_cost = NoneCost,
                       !.mincost_bound = NoneCost,
                       !.min_reached = FALSE,
                       !.num_states_visited = 0,
                       !.num_next_states = 0,
                       !.num_enqueues = 0,
                       !.num_backjumps = 0,
                       !.penultimate_stats = <<0, 0, 0, 0>>]
    IN EnginePut(c, initial_state_list, 0, func_args)

\* a flag raised at every pop, whatever the cost
UpdateMinimumReached_Always(e, min_cost) == [e EXCEPT !.min_reached = TRUE]

\* a flag raised as soon as an upper-bound cost exists, whatever was popped
UpdateMinimumReached_AnyBound(e, min_cost) ==
    IF min_cost = NoneCost \/ e.upperbound_cost # NoneCost
    THEN [e EXCEPT !.min_reached = TRUE]
    ELSE e

UpdateMinimumReached(e, min_cost) ==
    IF min_cost = NoneCost
       \/ (e.upperbound_cost # NoneCost /\ CostLE(e.upperbound_cost, min_cost))
    THEN [e EXCEPT !.min_reached = TRUE]
    ELSE e

\* a test that looks at the upper-bound cost only
CostBoundsExceeded_UpperOnly(e, cost) ==
    /\ cost # NoneCost
    /\ e.upperbound_cost # NoneCost
    /\ CostLT(e.upperbound_cost, cost)

CostBoundsExceeded(e, cost) ==
    /\ cost # NoneCost
    /\ \/ (e.mincost_bound # NoneCost /\ CostLT(e.mincost_bound, cost))
       \/ (e.upperbound_cost # NoneCost /\ CostLT(e.upperbound_cost, cost))

\* an update that takes any cost bound handed in, larger ones included
UpdateUpperboundCostOf_Always(e, cost_bound) ==
    IF cost_bound # NoneCost THEN [e EXCEPT !.upperbound_cost = cost_bound] ELSE e

UpdateUpperboundCostOf(e, cost_bound) ==
    IF cost_bound # NoneCost
       /\ (e.upperbound_cost = NoneCost \/ CostLT(cost_bound, e.upperbound_cost))
    THEN [e EXCEPT !.upperbound_cost = cost_bound]
    ELSE e

\* a goal state that never tightens the bound
UpdateUpperboundGoalState_Never(e, goal_state, func_args) == e

\* a goal state that tightens the bound by its cost whatever functions were given
UpdateUpperboundGoalState_CostOnly(e, goal_state, func_args) ==
    LET bound == cut_optimization_cost_func(goal_state, func_args)
    IN IF e.upperbound_cost = NoneCost \/ CostLT(bound, e.upperbound_cost)
       THEN [e EXCEPT !.upperbound_cost = bound]
       ELSE e

\* update_upperbound_goal_state: the bound of the goal state is given by the
\* upper-bound function, or by the cost function when there is none
UpdateUpperboundGoalState(e, goal_state, func_args) ==
    LET bound == IF e.upperbound_cost_func # NoneFunc
                 THEN cut_optimization_upper_bound_cost_func(goal_state, func_args)
                 ELSE cut_optimization_cost_func(goal_state, func_args)
    IN IF e.upperbound_cost = NoneCost \/ CostLT(bound, e.upperbound_cost)
       THEN [e EXCEPT !.upperbound_cost = bound]
       ELSE e

\* a while condition that lets the counter pass the limit: <= for <
LoopCondition_Inclusive(e) ==
    /\ QueueSize(e) > 0
    /\ (~e.stop_at_first_min \/ ~e.min_reached)
    /\ (e.max_backjumps = NoneInt \/ e.num_backjumps <= e.max_backjumps)

\* a while condition that does not look at stop_at_first_min
LoopCondition_NoFlag(e) ==
    /\ QueueSize(e) > 0
    /\ (e.max_backjumps = NoneInt \/ e.num_backjumps < e.max_backjumps)

\* the while condition of optimization_pass
LoopCondition(e) ==
    /\ QueueSize(e) > 0
    /\ (~e.stop_at_first_min \/ ~e.min_reached)
    /\ (e.max_backjumps = NoneInt \/ e.num_backjumps < e.max_backjumps)

\* the counters after a pop that passed the cost bounds
CountPop(e, depth) ==
    [e EXCEPT !.num_states_visited = @ + 1,
              !.num_backjumps =
                  IF e.prev_depth # NoneInt /\ depth <= e.prev_depth THEN @ + 1 ELSE @,
              !.prev_depth = depth]

(***************************************************************************)
(* One iteration of the while loop of optimization_pass, from the pop to   *)
(* the return or to the end of the body.  kind tells how it ended:         *)
(* "exceeded" (return None, None), "goal" (return state, cost), "raise"    *)
(* (next_state_func raised, the pass is left by the exception) or "expand".*)
\* an iteration that takes the snapshot before the pop of the goal is counted
LoopBody_EarlySnapshot(e, func_args) ==
    LET got == QueueGet(e)
        e1 == UpdateMinimumReached(got.e, got.cost)
        e2 == CountPop(e1, got.depth)
        isgoal == cut_optimization_goal_state_func(got.state, func_args)
        e3 == UpdateMinimumReached(
                  UpdateUpperboundGoalState(
                      [e2 EXCEPT !.penultimate_stats = GetStats(e1)],
                      got.state, func_args),
                  got.cost)
        next_state_list == cut_optimization_next_state_func(got.state, func_args)
    IN IF CostBoundsExceeded(e1, got.cost)
       THEN [kind |-> "exceeded", e |-> e1, state |-> got.state, depth |-> got.depth,
             cost |-> got.cost, succ |-> << >>]
       ELSE IF isgoal
       THEN [kind |-> "goal", e |-> e3, state |-> got.state, depth |-> got.depth,
             cost |-> got.cost, succ |-> << >>]
       ELSE IF NextStateRaises(got.state, func_args)
       THEN [kind |-> "raise", e |-> e2, state |-> got.state, depth |-> got.depth,
             cost |-> got.cost, succ |-> << >>]
       ELSE [kind |-> "expand",
             e |-> EnginePut(e2, next_state_list, got.depth + 1, func_args),
             state |-> got.state, depth |-> got.depth, cost |-> got.cost,
             succ |-> next_state_list]

(***************************************************************************)
LoopBody(e, func_args) ==
    LET got == QueueGet(e)
        e1 == UpdateMinimumReached(got.e, got.cost)
        e2 == CountPop(e1, got.depth)
        isgoal == cut_optimization_goal_state_func(got.state, func_args)
        e3 == UpdateMinimumReached(
                  UpdateUpperboundGoalState(
                      [e2 EXCEPT !.penultimate_stats = GetStats(e2)],
                      got.state, func_args),
                  got.cost)
        next_state_list == cut_optimization_next_state_func(got.state, func_args)
    IN IF CostBoundsExceeded(e1, got.cost)
       THEN [kind |-> "exceeded", e |-> e1, state |-> got.state, depth |-> got.depth,
             cost |-> got.cost, succ |-> << >>]
       ELSE IF isgoal
       THEN [kind |-> "goal", e |-> e3, state |-> got.state, depth |-> got.depth,
             cost |-> got.cost, succ |-> << >>]
       ELSE IF NextStateRaises(got.state, func_args)
       THEN [kind |-> "raise", e |-> e2, state |-> got.state, depth |-> got.depth,
             cost |-> got.cost, succ |-> << >>]
       ELSE [kind |-> "expand",
             e |-> EnginePut(e2, next_state_list, got.depth + 1, func_args),
             state |-> got.state, depth |-> got.depth, cost |-> got.cost,
             succ |-> next_state_list]

\* the engine at the top of an iteration of the loop, its generator about to
\* yield the values of the entries the iteration pushes
LoopDrawing(e, func_args) ==
    LET seeded == [e EXCEPT !.random_gen = [stream |-> FirstSeed, drawn |-> 0,
                                            next |-> << >>]]
        after == LoopBody(seeded, func_args).e
    IN Drawing(e, {x \in after.pqueue : x.seq < e.unique},
               [k \in 1..(after.unique - e.unique) |->
                   CHOOSE x \in after.pqueue : x.seq = e.unique + k - 1])

\* code after the loop that sets the flag whether or not the queue emptied
AfterLoop_Always(e) == [e EXCEPT !.min_reached = TRUE]

\* the code after the loop: an emptied queue means the minimum was reached
AfterLoop(e) ==
    IF QueueSize(e) = 0 THEN [e EXCEPT !.min_reached = TRUE] ELSE e

\* the entry of optimization_pass: refresh the min-cost bound, forget prev_depth
EnterPass(e, func_args) ==
    [e EXCEPT !.mincost_bound = cut_optimization_min_cost_bound_func(func_args),
              !.prev_depth = NoneInt]

(***************************************************************************)
(* Greedy pre-pass (specification 4.H step 2): follow the least-cost       *)
(* successor, the first of them on a tie, down to a goal.                  *)
(***************************************************************************)
LeastCostIndex(state_list, func_args) ==
    CHOOSE k \in 1..Len(state_list) :
        \A j \in 1..Len(state_list) :
            LET ck == cut_optimization_cost_func(state_list[k], func_args)
                cj == cut_optimization_cost_func(state_list[j], func_args)
            IN j = k \/ CostLT(ck, cj) \/ (ck = cj /\ k < j)

\* the greedy descent meets a state on which next_state_func raises
RECURSIVE GreedyRaises(_, _)
GreedyRaises(state, func_args) ==
    IF cut_optimization_goal_state_func(state, func_args) THEN FALSE
    ELSE IF NextStateRaises(state, func_args) THEN TRUE
    ELSE LET next_state_list == cut_optimization_next_state_func(state, func_args)
         IN IF Len(next_state_list) = 0 THEN FALSE
            ELSE GreedyRaises(next_state_list[LeastCostIndex(next_state_list, func_args)],
                              func_args)

RECURSIVE GreedyBestFirstSearch(_, _)
GreedyBestFirstSearch(state, func_args) ==
    IF cut_optimization_goal_state_func(state, func_args) THEN state
    ELSE LET next_state_list == cut_optimization_next_state_func(state, func_args)
         IN IF Len(next_state_list) = 0 THEN NoneState
            ELSE GreedyBestFirstSearch(
                     next_state_list[LeastCostIndex(next_state_list, func_args)],
                     func_args)

RECURSIVE SumArities(_, _)
SumArities(gates, k) ==
    IF k > Len(gates) THEN 0
    ELSE Len(gates[k].gate.qubits) + SumArities(gates, k + 1)

max_wire_cuts_circuit(gates) == SumArities(gates, 1)

RECURSIVE CeilLog2From(_, _, _)
CeilLog2From(n, j, p) == IF p >= n THEN j ELSE CeilLog2From(n, j + 1, 2 * p)

\* a rounding down where the code rounds up: int(floor(log2(max_gamma + 1) - 1))
max_wire_cuts_gamma_Floor(max_gamma) ==
    LET up == CeilLog2From(max_gamma + 1, 0, 1)
    IN IF 2 ^ up = max_gamma + 1 THEN up - 1 ELSE up - 2

\* int(ceil(log2(max_gamma + 1) - 1))
max_wire_cuts_gamma(max_gamma) == CeilLog2From(max_gamma + 1, 0, 1) - 1

Min2(a, b) == IF a <= b THEN a ELSE b

greedy_cut_optimization(func_args) ==
    GreedyBestFirstSearch(
        InitialState(NumQubits, max_wire_cuts_circuit(func_args.entangling_gates)),
        func_args)

(***************************************************************************)
(* CutOptimization driver.                                                 *)
(***************************************************************************)
FuncArgs(c, mg, w) ==
    [entangling_gates |-> MultiqubitGates(c), max_gamma |-> mg, qpu_width |-> w]

DriverMaxWireCuts(greedy, func_args) ==
    LET per_circuit == max_wire_cuts_circuit(func_args.entangling_gates)
    IN IF greedy # NoneState
       THEN Min2(per_circuit, max_wire_cuts_gamma(UpperBoundGamma(greedy)))
       ELSE IF func_args.max_gamma # NoneInt
       THEN Min2(per_circuit, max_wire_cuts_gamma(func_args.max_gamma))
       ELSE per_circuit

\* CutOptimization.__init__ is left by the ValueError of the greedy pre-pass
CutOptimizationRaises(func_args) ==
    GreedyRaises(InitialState(NumQubits, max_wire_cuts_circuit(func_args.entangling_gates)),
                 func_args)

\* a constructor that seeds the upper bound before initialize() is called
CutOptimizationNew_SeedFirst(func_args, sd, mbj, g0) ==
    LET greedy == greedy_cut_optimization(func_args)
        start_state == InitialState(NumQubits, DriverMaxWireCuts(greedy, func_args))
        sq == BestFirstSearchNew(sd, mbj, FALSE, g0)
        bounded == IF greedy # NoneState
                   THEN UpdateUpperboundGoalState(sq, greedy, func_args)
                   ELSE sq
    IN [pc |-> "idle",
        func_args |-> func_args,
        greedy_goal_state |-> greedy,
        goal_state_returned |-> FALSE,
        search_engine |-> Initialize(bounded, <<start_state>>, func_args)]

\* CutOptimization.__init__, with g0 the state of the freshly seeded generator
CutOptimizationNew(func_args, sd, mbj, g0) ==
    LET greedy == greedy_cut_optimization(func_args)
        start_state == InitialState(NumQubits, DriverMaxWireCuts(greedy, func_args))
        sq == Initialize(BestFirstSearchNew(sd, mbj, FALSE, g0),
                         <<start_state>>, func_args)
        bounded == IF greedy # NoneState
                   THEN UpdateUpperboundGoalState(sq, greedy, func_args)
                   ELSE sq
    IN [pc |-> "idle",
        func_args |-> func_args,
        greedy_goal_state |-> greedy,
        goal_state_returned |-> FALSE,
        search_engine |-> bounded]

(***************************************************************************)
(* State.  The inputs are fixed when the drivers are built; drv[i] is the  *)
(* i-th CutOptimization object (pc "new" before its constructor has run);  *)
(* hist[i] records what the object has done, for the properties below.     *)
(* walk is a sub-circuits state being led through the action catalogue by  *)
(* hand, one action at a time, outside any search.                         *)
(***************************************************************************)
VARIABLES circuit, qpu_width, seed, max_backjumps, max_gamma, drv, hist, walk, call

vars == <<circuit, qpu_width, seed, max_backjumps, max_gamma, drv, hist, walk, call>>
inputs == <<circuit, qpu_width, seed, max_backjumps, max_gamma>>

\* the cost bounds a caller hands to update_upperbound_cost
UpdateCosts == {NoneCost, <<1, Inf>>, <<3, 1>>, <<3, 2>>}

NewHist ==
    [start |-> << >>,
     passes |-> 0, updates |-> 0, update |-> NoneCost, ret |-> << >>, eret |-> << >>, pops |-> << >>,
     lastexp |-> [parent |-> NoneState, succ |-> << >>],
     goal_stats |-> NoneCost,
     pass |-> [backjumps |-> 0, min_reached |-> FALSE, min_by_pop |-> FALSE,
               pops |-> 0, end |-> "none"]]

NoWalk == [state |-> NoneState, parent |-> NoneState, name |-> "none"]

\* no call of a stand-alone class or function is under way
NoCall == [op |-> "none"]

TypeInputs ==
    /\ circuit \in Circuits
    /\ qpu_width \in QpuWidths
    /\ max_backjumps \in BackjumpLimits
    /\ max_gamma \in MaxGammas

Init ==
    /\ TypeInputs
    /\ seed = FirstSeed
    /\ drv = [i \in DriverIds |-> [pc |-> "new"]]
    /\ hist = [i \in DriverIds |-> NewHist]
    /\ walk = NoWalk
    /\ call = NoCall

\* CutOptimization(circuit, settings, constraints)
Construct(i) ==
    /\ drv[i].pc = "new"
    /\ IF CutOptimizationRaises(FuncArgs(circuit, max_gamma, qpu_width))
       THEN /\ drv' = [drv EXCEPT ![i] = [pc |-> "raised"]]
            /\ hist' = hist
       ELSE \E g0 \in DefaultRng(seed) :
               LET d == CutOptimizationNew(FuncArgs(circuit, max_gamma, qpu_width),
                                           seed, max_backjumps, g0)
               IN /\ drv' = [drv EXCEPT ![i] = d]
                  /\ hist' = [hist EXCEPT ![i].start = d.search_engine]
    /\ UNCHANGED <<inputs, walk, call>>

\* optimization_pass() is called: the code before the while loop
BeginPass(i) ==
    /\ drv[i].pc = "idle"
    /\ hist[i].passes < MaxPasses
    /\ drv' = [drv EXCEPT ![i].pc = "loop",
                          ![i].search_engine = EnterPass(@, drv[i].func_args)]
    /\ hist' = [hist EXCEPT ![i].passes = @ + 1,
                            ![i].pass = [backjumps |-> drv[i].search_engine.num_backjumps,
                                         min_reached |-> drv[i].search_engine.min_reached,
                                         min_by_pop |-> FALSE,
                                         pops |-> 0, end |-> "running"]]
    /\ UNCHANGED <<inputs, walk, call>>

\* CutOptimization.optimization_pass around the engine's return value
DriverReturn(d, state, cost) ==
    LET fallback == state = NoneState /\ ~d.goal_state_returned
    IN IF fallback /\ d.greedy_goal_state = NoneState
       THEN [d EXCEPT !.pc = "error"]
       ELSE [d EXCEPT !.pc = "idle", !.goal_state_returned = TRUE]

\* a driver that falls back on the greedy state in every call
DriverResult_Always(d, state, cost) ==
    IF state = NoneState
    THEN [state |-> d.greedy_goal_state,
          cost |-> IF d.greedy_goal_state = NoneState THEN NoneCost
                   ELSE cut_optimization_cost_func(d.greedy_goal_state, d.func_args)]
    ELSE [state |-> state, cost |-> cost]

DriverResult(d, state, cost) ==
    IF state = NoneState /\ ~d.goal_state_returned
    THEN [state |-> d.greedy_goal_state,
          cost |-> IF d.greedy_goal_state = NoneState THEN NoneCost
                   ELSE cut_optimization_cost_func(d.greedy_goal_state, d.func_args)]
    ELSE [state |-> state, cost |-> cost]

\* the pop about to happen finds the upper-bound cost at or below the popped cost
PopReachesMinimum(e) ==
    e.upperbound_cost # NoneCost /\ CostLE(e.upperbound_cost, QueueGet(e).cost)

\* the engine's pass returns (state, cost) to the driver, which returns to the caller
Return(i, e, state, cost, how) ==
    LET d == [drv[i] EXCEPT !.search_engine = e]
    IN /\ drv' = [drv EXCEPT ![i] = DriverReturn(d, state, cost)]
       /\ hist' = [hist EXCEPT
                     ![i].eret = Append(@, [state |-> state, cost |-> cost]),
                     ![i].ret = Append(@, DriverResult(d, state, cost)),
                     ![i].pass.end = how,
                     ![i].goal_stats = IF how = "goal" THEN GetStats(e) ELSE @,
                     ![i].pass.pops = IF how = "exit" THEN @ ELSE @ + 1,
                     ![i].pass.min_by_pop =
                         IF how = "exit" THEN @
                         ELSE @ \/ PopReachesMinimum(drv[i].search_engine),
                     ![i].pops = IF how = "exit" THEN @
                                 ELSE Append(@, [depth |-> QueueGet(drv[i].search_engine).depth,
                                                 pass |-> hist[i].passes,
                                                 visited |-> how = "goal"])]

\* an iteration that pops a state whose cost exceeds a bound
StepExceeded(i) ==
    /\ drv[i].pc = "loop"
    /\ LoopCondition(drv[i].search_engine)
    /\ \E e \in LoopDrawing(drv[i].search_engine, drv[i].func_args) :
       LET r == LoopBody(e, drv[i].func_args)
       IN /\ r.kind = "exceeded"
          /\ Return(i, r.e, NoneState, NoneCost, "exceeded")
    /\ UNCHANGED <<inputs, walk, call>>

\* an iteration that pops a goal state
StepGoal(i) ==
    /\ drv[i].pc = "loop"
    /\ LoopCondition(drv[i].search_engine)
    /\ \E e \in LoopDrawing(drv[i].search_engine, drv[i].func_args) :
       LET r == LoopBody(e, drv[i].func_args)
       IN /\ r.kind = "goal"
          /\ Return(i, r.e, r.state, r.cost, "goal")
    /\ UNCHANGED <<inputs, walk, call>>

\* an iteration that pops a state and pushes its successors
StepExpand(i) ==
    /\ drv[i].pc = "loop"
    /\ LoopCondition(drv[i].search_engine)
    /\ \E e \in LoopDrawing(drv[i].search_engine, drv[i].func_args) :
       LET r == LoopBody(e, drv[i].func_args)
       IN /\ r.kind = "expand"
          /\ drv' = [drv EXCEPT ![i].search_engine = r.e]
          /\ hist' = [hist EXCEPT
                        ![i].pops = Append(@, [depth |-> r.depth, pass |-> hist[i].passes,
                                               visited |-> TRUE]),
                        ![i].pass.pops = @ + 1,
                        ![i].pass.min_by_pop = @ \/ PopReachesMinimum(drv[i].search_engine),
                        ![i].lastexp = [parent |-> r.state, succ |-> r.succ]]
    /\ UNCHANGED <<inputs, walk, call>>

\* the while condition fails: the code after the loop
ExitLoop(i) ==
    /\ drv[i].pc = "loop"
    /\ ~LoopCondition(drv[i].search_engine)
    /\ Return(i, AfterLoop(drv[i].search_engine), NoneState, NoneCost, "exit")
    /\ UNCHANGED <<inputs, walk, call>>

\* CutOptimization.update_upperbound_cost(cost_bound), between two passes
UpdateUpperboundCost(i) ==
    /\ drv[i].pc = "idle"
    /\ hist[i].updates < MaxUpdates
    /\ \E c \in UpdateCosts :
          /\ drv' = [drv EXCEPT ![i].search_engine = UpdateUpperboundCostOf(@, c)]
          /\ hist' = [hist EXCEPT ![i].updates = @ + 1, ![i].update = c]
    /\ UNCHANGED <<inputs, walk, call>>

DriverNext(i) ==
    \/ Construct(i)
    \/ BeginPass(i)
    \/ StepExceeded(i)
    \/ StepGoal(i)
    \/ StepExpand(i)
    \/ ExitLoop(i)
    \/ UpdateUpperboundCost(i)

Next == DriverNext(1)

Spec == Init /\ [][Next]_vars

(***************************************************************************)
(* Two drivers built from the same inputs and given the same calls, one    *)
(* call at a time: driver 1 first, then driver 2.                          *)
(***************************************************************************)
\* the longest circuit given to two drivers built without a seed
MaxUnseededGates == 2

InitTwo ==
    /\ circuit \in Circuits
    /\ qpu_width \in QpuWidths
    /\ max_backjumps \in {NoneInt, 1}
    /\ max_gamma = NoneInt
    /\ seed \in Seeds \cup {NoneInt}
    /\ seed = NoneInt => Len(circuit) <= MaxUnseededGates
    /\ drv = [i \in DriverIds |-> [pc |-> "new"]]
    /\ hist = [i \in DriverIds |-> NewHist]
    /\ walk = NoWalk
    /\ call = NoCall

Turn(i) ==
    IF i = 1 THEN drv[2].pc \in {"new", "idle"} /\ hist[1].passes = hist[2].passes
    ELSE drv[1].pc = "idle" /\ hist[2].passes < hist[1].passes

ConstructTwo(i) == (i = 1 \/ drv[1].pc # "new") /\ Construct(i)
BeginPassTwo(i) == Turn(i) /\ BeginPass(i)

NextTwo ==
    \E i \in DriverIds :
        \/ ConstructTwo(i)
        \/ BeginPassTwo(i)
        \/ StepExceeded(i)
        \/ StepGoal(i)
        \/ StepExpand(i)
        \/ ExitLoop(i)

SpecTwo == InitTwo /\ [][NextTwo]_vars

(***************************************************************************)
(* The action catalogue on its own: a state is taken from the initial      *)
(* state through the gates of the circuit, by any action at each gate.     *)
(***************************************************************************)
InitWalk ==
    /\ circuit \in Circuits
    /\ qpu_width \in QpuWidths
    /\ max_backjumps = NoneInt
    /\ max_gamma = NoneInt
    /\ seed = FirstSeed
    /\ drv = [i \in DriverIds |-> [pc |-> "new"]]
    /\ hist = [i \in DriverIds |-> NewHist]
    /\ \E mwc \in 0..max_wire_cuts_circuit(MultiqubitGates(circuit)) :
          walk = [state |-> InitialState(NumQubits, mwc), parent |-> NoneState,
                  name |-> "initial"]
    /\ call = NoCall

Apply(name) ==
    /\ walk.state.search_level < Len(circuit)
    /\ LET next_state_list ==
               ActionNextState(name, walk.state,
                               MultiqubitGates(circuit)[walk.state.search_level + 1],
                               qpu_width)
       IN \E k \in 1..Len(next_state_list) :
             walk' = [state |-> next_state_list[k], parent |-> walk.state, name |-> name]
    /\ UNCHANGED <<inputs, drv, hist, call>>

ApplyNone == Apply("None")
ApplyGateCut == Apply("GateCut")
ApplyWireCut == Apply("WireCut")
ApplyAbsorbGate == Apply("AbsorbGate")

NextWalk ==
    \/ ApplyNone
    \/ ApplyGateCut
    \/ ApplyWireCut
    \/ ApplyAbsorbGate

SpecWalk == InitWalk /\ [][NextWalk]_vars

(***************************************************************************)
(* Helpers of the properties.                                              *)
(***************************************************************************)
Range(f) == {f[k] : k \in DOMAIN f}

Constructed(i) == drv[i].pc # "new"

\* the initial state the driver pushed on its engine
StartState(i) ==
    InitialState(NumQubits, DriverMaxWireCuts(drv[i].greedy_goal_state, drv[i].func_args))

\* the goal states reachable from the states S, all of one search level
RECURSIVE GoalsFrom(_, _)
GoalsFrom(S, func_args) ==
    IF S = {} THEN {}
    ELSE LET goals == {s \in S : cut_optimization_goal_state_func(s, func_args)}
             next == UNION {Range(cut_optimization_next_state_func(s, func_args)) :
                               s \in S \ goals}
         IN goals \cup GoalsFrom(next, func_args)

\* the states a driver has returned
Returned(i) == {r \in Range(hist[i].ret) : r.state # NoneState}

(***************************************************************************)
(* C1: over successive optimization_pass() calls of a driver, the costs    *)
(* (gamma_lb, max_width) of the states returned never decrease: a state    *)
(* returned by an earlier call costs no more than one returned later.      *)
(***************************************************************************)
C1_CostsNonDecreasing ==
    \A i \in DriverIds :
        \A j, k \in 1..Len(hist[i].ret) :
            (j < k /\ hist[i].ret[j].state # NoneState /\ hist[i].ret[k].state # NoneState)
                => CostLE(hist[i].ret[j].cost, hist[i].ret[k].cost)

\* two calls have returned states, the later one of strictly greater cost
C1_Witness ==
    \E i \in DriverIds :
        \E j, k \in 1..Len(hist[i].ret) :
            /\ j < k
            /\ hist[i].ret[j].state # NoneState
            /\ hist[i].ret[k].state # NoneState
            /\ CostLT(hist[i].ret[j].cost, hist[i].ret[k].cost)

(***************************************************************************)
(* C2: with max_backjumps unlimited, the first state the driver returns    *)
(* has the least cost of all goal states reachable from the initial state: *)
(* no reachable goal state costs strictly less.                            *)
(***************************************************************************)
C2_FirstIsMinimum ==
    \A i \in DriverIds :
        (/\ max_backjumps = NoneInt
         /\ drv[i].pc = "idle"
         /\ hist[i].passes = 1
         /\ hist[i].updates = 0)
            => /\ hist[i].ret[1].state # NoneState
               /\ \A g \in GoalsFrom({StartState(i)}, drv[i].func_args) :
                      CostLE(hist[i].ret[1].cost,
                             cut_optimization_cost_func(g, drv[i].func_args))

\* the same, for a first pass in which the engine itself found the state
C2_EngineFirstIsMinimum ==
    \A i \in DriverIds :
        (/\ max_backjumps = NoneInt
         /\ drv[i].pc = "idle"
         /\ hist[i].passes = 1
         /\ hist[i].updates = 0
         /\ hist[i].eret[1].state # NoneState)
            => \A g \in GoalsFrom({StartState(i)}, drv[i].func_args) :
                   CostLE(hist[i].ret[1].cost,
                          cut_optimization_cost_func(g, drv[i].func_args))

(***************************************************************************)
(* The random numbers on a driver's heap are those of the stream of its    *)
(* seed, one for each put in the order of the puts: the entry of push      *)
(* number n carries the n-th value default_rng(seed) yields.               *)
(***************************************************************************)
TieBreaksFromSeed(i) ==
    drv[i].pc \notin {"new", "raised"} =>
        \A x \in drv[i].search_engine.pqueue : x.rand = Pcg64Draws(seed)[x.seq + 1]

\* the returns of the two drivers up to the last call both have answered
SameReturns ==
    \A k \in 1..Min2(Len(hist[1].ret), Len(hist[2].ret)) :
        hist[1].ret[k] = hist[2].ret[k]

C3_UnseededDiffer == seed = NoneInt /\ ~SameReturns

RECURSIVE RunOn(_, _, _)
RunOn(e, func_args, goals) ==
    IF ~LoopCondition(e) THEN goals
    ELSE LET r == LoopBody(e, func_args)
         IN IF r.kind = "exceeded" THEN goals
            ELSE IF r.kind = "goal"
            THEN RunOn(r.e, func_args, Append(goals, [state |-> r.state, cost |-> r.cost]))
            ELSE RunOn(r.e, func_args, goals)

UninterruptedRun(e, func_args) == RunOn(EnterPass(e, func_args), func_args, << >>)

EngineGoals(i) == SelectSeq(hist[i].eret, LAMBDA r : r.state # NoneState)

IsPrefix(a, b) == Len(a) <= Len(b) /\ \A k \in 1..Len(a) : a[k] = b[k]

C4_PausesInvisible ==
    \A i \in DriverIds :
        (drv[i].pc = "idle" /\ hist[i].updates = 0)
            => IsPrefix(EngineGoals(i),
                        UninterruptedRun(hist[i].start, drv[i].func_args))

\* what holds of the code: the same, when no backjump limit is set
C4_PausesInvisibleUnlimited ==
    \A i \in DriverIds :
        (drv[i].pc = "idle" /\ hist[i].updates = 0 /\ max_backjumps = NoneInt)
            => IsPrefix(EngineGoals(i),
                        UninterruptedRun(hist[i].start, drv[i].func_args))

(***************************************************************************)
(* C5: no sub-circuit is wider than the QPU.  In every state a driver has  *)
(* returned, in every state the actions have produced and in every queued  *)
(* state, width[r] <= qpu_width for every root r.                          *)
(***************************************************************************)
WidthRespected(s) == \A r \in Roots(s) : s.width[r] <= qpu_width

Queued(i) ==
    IF Constructed(i) THEN {x.state : x \in drv[i].search_engine.pqueue} ELSE {}

Produced(i) == Range(hist[i].lastexp.succ)

C5_WidthRespected ==
    \A i \in DriverIds :
        /\ \A r \in Returned(i) : WidthRespected(r.state)
        /\ \A s \in Produced(i) \cup Queued(i) : WidthRespected(s)

\* a returned state that needed a cut and fills a QPU
C5_Witness ==
    \E i \in DriverIds : \E r \in Returned(i) :
        /\ r.state.gamma_LB > 1
        /\ GetMaxWidth(r.state) = qpu_width
        /\ qpu_width > 1

(***************************************************************************)
(* C6: gamma is monotone.  Whatever action takes a state to a successor,   *)
(* the successor's gamma_lb and gamma_ub are at least the parent's, its    *)
(* gamma_lb is at most its gamma_ub, and its search cost                   *)
(* (gamma_lb, max_width) is at least the parent's.                         *)
(***************************************************************************)
C6_GammaMonotone ==
    /\ walk.state # NoneState => walk.state.gamma_LB <= walk.state.gamma_UB
    /\ walk.parent # NoneState =>
          /\ walk.state.gamma_LB >= walk.parent.gamma_LB
          /\ walk.state.gamma_UB >= walk.parent.gamma_UB
          /\ CostLE(cut_optimization_cost_func(walk.parent, FuncArgs(circuit, max_gamma, qpu_width)),
                    cut_optimization_cost_func(walk.state, FuncArgs(circuit, max_gamma, qpu_width)))

\* a wire cut has just been applied to a state that had merged two wires: the
\* bounds part, and the width grows
C6_Witness ==
    /\ walk.name = "WireCut"
    /\ walk.state.gamma_LB < walk.state.gamma_UB
    /\ walk.parent.gamma_LB > 1
    /\ GetMaxWidth(walk.parent) < GetMaxWidth(walk.state)

(***************************************************************************)
(* C7: the wires added by wire cuts never exceed the wire-cut capacity the *)
(* driver gave its initial state: num_wires - num_qubits <= max_wire_cuts  *)
(* in every state returned, produced by the actions or queued.             *)
(***************************************************************************)
WireBudgetRespected(i, s) ==
    s.num_wires - s.num_qubits <= StartState(i).max_wire_cuts

C7_WireBudget ==
    \A i \in DriverIds :
        Constructed(i) =>
            /\ \A r \in Returned(i) : WireBudgetRespected(i, r.state)
            /\ \A s \in Produced(i) \cup Queued(i) : WireBudgetRespected(i, s)

\* a returned state that has used up the whole capacity with a wire cut
C7_Witness ==
    \E i \in DriverIds : \E r \in Returned(i) :
        /\ r.state.num_wires > r.state.num_qubits
        /\ r.state.num_wires - r.state.num_qubits = StartState(i).max_wire_cuts

(***************************************************************************)
(* C8: the backjumps counter equals the number of pops made so far, over   *)
(* all optimization_pass() calls, whose depth was at most the depth of the *)
(* pop just before.                                                        *)
(***************************************************************************)
NonDeepeningPops(i) ==
    {k \in 2..Len(hist[i].pops) : hist[i].pops[k].depth <= hist[i].pops[k - 1].depth}

C8_BackjumpsCountPops ==
    \A i \in DriverIds :
        Constructed(i) =>
            drv[i].search_engine.num_backjumps = Cardinality(NonDeepeningPops(i))

\* what holds of the code: only a pop that passed the cost bounds and is not the
\* first pop of its pass is compared with the pop before it
CountedPops(i) ==
    {k \in NonDeepeningPops(i) :
        hist[i].pops[k].visited /\ hist[i].pops[k].pass = hist[i].pops[k - 1].pass}

C8_BackjumpsCountPopsOfOnePass ==
    \A i \in DriverIds :
        Constructed(i) =>
            drv[i].search_engine.num_backjumps = Cardinality(CountedPops(i))

(***************************************************************************)
(* C9: with max_backjumps = m the counter never exceeds m, and a pass that *)
(* begins with the counter at m pops nothing and returns (None, None).     *)
(***************************************************************************)
LastEngineReturn(i) == hist[i].eret[Len(hist[i].eret)]

C9_BackjumpLimit ==
    \A i \in DriverIds :
        (Constructed(i) /\ max_backjumps # NoneInt) =>
            /\ drv[i].search_engine.num_backjumps <= max_backjumps
            /\ (hist[i].passes > 0 /\ hist[i].pass.backjumps = max_backjumps) =>
                  /\ hist[i].pass.pops = 0
                  /\ hist[i].pass.end \in {"running", "exit"}
                  /\ hist[i].pass.end = "exit" => LastEngineReturn(i).state = NoneState

\* the counter was counted up to the limit, and the next pass has returned nothing
C9_Witness ==
    \E i \in DriverIds :
        /\ Constructed(i)
        /\ max_backjumps > 0
        /\ hist[i].pass.backjumps = max_backjumps
        /\ hist[i].pass.end = "exit"
        /\ QueueSize(drv[i].search_engine) > 0

(***************************************************************************)
(* C10: a pass that stops because the backjump limit is reached while the  *)
(* queue still holds states returns (None, None) and does not set          *)
(* min_reached: false when the pass began, it is false when it returns.    *)
(***************************************************************************)
StoppedByLimit(i) ==
    /\ drv[i].pc = "idle"
    /\ hist[i].pass.end = "exit"
    /\ max_backjumps # NoneInt
    /\ QueueSize(drv[i].search_engine) > 0

C10_LimitSetsNoMinimum ==
    \A i \in DriverIds :
        StoppedByLimit(i) =>
            /\ LastEngineReturn(i).state = NoneState
            /\ ~hist[i].pass.min_reached => ~drv[i].search_engine.min_reached

\* the same, but for a pop of that very pass whose cost had reached the upper bound
C10_LimitItselfSetsNoMinimum ==
    \A i \in DriverIds :
        StoppedByLimit(i) =>
            /\ LastEngineReturn(i).state = NoneState
            /\ (~hist[i].pass.min_reached /\ ~hist[i].pass.min_by_pop)
                  => ~drv[i].search_engine.min_reached

\* a pass that popped states has been stopped by the limit, the flag still false
C10_Witness ==
    \E i \in DriverIds :
        /\ StoppedByLimit(i)
        /\ hist[i].pass.pops > 0
        /\ ~drv[i].search_engine.min_reached

(***************************************************************************)
(* C11: with max_gamma = 1 and a circuit all of whose goal states need a   *)
(* cut (gamma_lb > 1), a call of the driver's optimization_pass() returns  *)
(* no state, as an empty result and not as an error, and minimum_reached() *)
(* is true after it.                                                       *)
(***************************************************************************)
EveryGoalNeedsCut(i) ==
    LET goals == GoalsFrom({StartState(i)}, drv[i].func_args)
    IN goals # {} /\ \A g \in goals : LowerBoundGamma(g) > 1

MaxGammaOneCase(i) ==
    /\ drv[i].pc \in {"idle", "error"}
    /\ hist[i].passes >= 1
    /\ hist[i].updates = 0
    /\ max_gamma = 1
    /\ max_backjumps = NoneInt
    /\ EveryGoalNeedsCut(i)

C11_MaxGammaOneReturnsNone ==
    \A i \in DriverIds :
        MaxGammaOneCase(i) =>
            /\ drv[i].pc = "idle"
            /\ hist[i].ret[Len(hist[i].ret)].state = NoneState
            /\ drv[i].search_engine.min_reached

\* what holds of the code: the engine yields no state and raises nothing, and the
\* flag is set when the queue has been emptied or a popped cost reached the bound
C11_MaxGammaOneEngineYieldsNone ==
    \A i \in DriverIds :
        MaxGammaOneCase(i) =>
            /\ drv[i].pc = "idle"
            /\ \A k \in 1..Len(hist[i].eret) : hist[i].eret[k].state = NoneState
            /\ \A k \in 2..Len(hist[i].ret) : hist[i].ret[k].state = NoneState
            /\ drv[i].search_engine.min_reached => QueueSize(drv[i].search_engine) = 0
(***************************************************************************)
(* The upper-bound cost of a driver's engine never increases between two   *)
(* calls of initialize(): a step that returns a goal state leaves it at the*)
(* smaller of its old value and the upper-bound cost of the goal; a call   *)
(* of update_upperbound_cost(c) replaces it exactly when c is given and    *)
(* the bound is unset or c is strictly smaller; every other step, and      *)
(* update_upperbound_cost(None), leave it as it was.                       *)
(***************************************************************************)
MinCost(a, b) == IF a = NoneCost THEN b ELSE IF CostLT(b, a) THEN b ELSE a

GoalReturnedNow(i) ==
    /\ Len(hist[i].eret') = Len(hist[i].eret) + 1
    /\ hist[i].eret'[Len(hist[i].eret')].state # NoneState

UpdatedNow(i) == hist[i].updates' = hist[i].updates + 1

UpperBoundStep(i) ==
    LET ub == drv[i].search_engine.upperbound_cost
        ub2 == drv[i].search_engine.upperbound_cost'
        goal == hist[i].eret'[Len(hist[i].eret')].state
        c == hist[i].update'
    IN /\ ub # NoneCost => (ub2 # NoneCost /\ CostLE(ub2, ub))
       /\ GoalReturnedNow(i) =>
              ub2 = MinCost(ub, cut_optimization_upper_bound_cost_func(goal, drv[i].func_args))
       /\ UpdatedNow(i) =>
              ub2 = IF c # NoneCost /\ (ub = NoneCost \/ CostLT(c, ub)) THEN c ELSE ub
       /\ (~GoalReturnedNow(i) /\ ~UpdatedNow(i)) => ub2 = ub

\* the constructor: initialize() unsets the bound, the greedy goal state sets it
SeededNow(i) ==
    (~Constructed(i) /\ Constructed(i)') =>
        drv[i].search_engine.upperbound_cost' =
            MinCost(NoneCost,
                    cut_optimization_upper_bound_cost_func(drv[i].greedy_goal_state',
                                                           drv[i].func_args'))

\* the same of the engine inside a driver, whose bound the greedy goal state seeds
C12_DriverUpperBoundNeverIncreases ==
    [][\A i \in DriverIds :
          /\ SeededNow(i)
          /\ (Constructed(i) /\ Constructed(i)') => UpperBoundStep(i)]_vars

\* a returned goal lowered the bound seeded by the greedy state, then an update
\* with a strictly smaller cost replaced it, and an update with None or with a
\* larger cost would not have
C12_WitnessDriver ==
    \E i \in DriverIds :
        /\ Constructed(i)
        /\ hist[i].updates = 1
        /\ hist[i].update # NoneCost
        /\ drv[i].search_engine.upperbound_cost = hist[i].update
        /\ \E r \in Returned(i) :
               /\ CostLT(cut_optimization_upper_bound_cost_func(r.state, drv[i].func_args),
                         hist[i].start.upperbound_cost)
               /\ CostLT(hist[i].update,
                         cut_optimization_upper_bound_cost_func(r.state, drv[i].func_args))

\* an update with None, or with a cost that is not smaller, left the bound alone
C12_WitnessDriverIgnored ==
    \E i \in DriverIds :
        /\ Constructed(i)
        /\ hist[i].updates = 1
        /\ drv[i].search_engine.upperbound_cost # hist[i].update
        /\ drv[i].search_engine.upperbound_cost # NoneCost

(***************************************************************************)
(* C13.  As stated: when the driver has returned a goal g1 and a later     *)
(* pass returns a goal g2, the gamma upper bound of g2 is at most that of  *)
(* g1, unless g2 left the queue before g1 tightened the bound.  A later    *)
(* pass pops its state after every earlier return, so the exception never  *)
(* applies to the pairs the statement is about.                            *)
(***************************************************************************)
GoalPairs(i) ==
    {p \in (1..Len(hist[i].ret)) \X (1..Len(hist[i].ret)) :
        /\ p[1] < p[2]
        /\ hist[i].ret[p[1]].state # NoneState
        /\ hist[i].ret[p[2]].state # NoneState}

\* the pop of call k came before the return of call j
PoppedBeforeReturn(j, k) == k <= j

C13_LaterGoalNoWorseUpperBound ==
    \A i \in DriverIds : \A p \in GoalPairs(i) :
        \/ UpperBoundGamma(hist[i].ret[p[2]].state) <= UpperBoundGamma(hist[i].ret[p[1]].state)
        \/ PoppedBeforeReturn(p[1], p[2])

(***************************************************************************)
(* C13, what the pruning gives: the cost of a later goal, whose first      *)
(* component is its gamma LOWER bound, is at most the upper-bound cost     *)
(* (gamma upper bound, infinity) of every goal returned before it.         *)
(***************************************************************************)
C13_LaterGoalWithinUpperBound ==
    \A i \in DriverIds : \A p \in GoalPairs(i) :
        /\ LowerBoundGamma(hist[i].ret[p[2]].state) <= UpperBoundGamma(hist[i].ret[p[1]].state)
        /\ CostLE(hist[i].ret[p[2]].cost,
                  cut_optimization_upper_bound_cost_func(hist[i].ret[p[1]].state,
                                                         drv[i].func_args))

\* a later goal whose gamma upper bound is above that of an earlier one
C13_Witness ==
    \E i \in DriverIds : \E p \in GoalPairs(i) :
        UpperBoundGamma(hist[i].ret[p[2]].state) > UpperBoundGamma(hist[i].ret[p[1]].state)

(***************************************************************************)
(* C14.  min_reached is false when the constructor has run initialize().   *)
(* It turns true only in a step that (a) ends a pass after the loop with   *)
(* the queue empty, or (b) pops a state whose cost is at or above the      *)
(* upper-bound cost, as the bound is at the pop or as it is after the      *)
(* popped goal has updated it.  Once true it stays true.                   *)
(***************************************************************************)
PassExitsNow(i) == hist[i].pass.end = "running" /\ hist[i].pass.end' = "exit"

PopsNow(i) == hist[i].pass.pops' = hist[i].pass.pops + 1

MinReachedStep(i) ==
    LET e == drv[i].search_engine
        cost == QueueGet(e).cost
    IN /\ e.min_reached => e.min_reached'
       /\ (~e.min_reached /\ e.min_reached') =>
             \/ PassExitsNow(i) /\ QueueSize(e)' = 0
             \/ /\ PopsNow(i)
                /\ \/ e.upperbound_cost # NoneCost /\ CostLE(e.upperbound_cost, cost)
                   \/ GoalReturnedNow(i) /\ CostLE(e.upperbound_cost', cost)
       /\ (PassExitsNow(i) /\ QueueSize(e)' = 0) => e.min_reached'
       /\ (PopsNow(i) /\ e.upperbound_cost # NoneCost /\ CostLE(e.upperbound_cost, cost))
             => e.min_reached'

C14_MinReachedOnlyWhenDue ==
    [][\A i \in DriverIds :
          /\ (~Constructed(i) /\ Constructed(i)') => ~drv[i].search_engine.min_reached'
          /\ (Constructed(i) /\ Constructed(i)') => MinReachedStep(i)]_vars

\* the flag was raised by a pop, with states still queued
C14_Witness ==
    \E i \in DriverIds :
        /\ Constructed(i)
        /\ drv[i].search_engine.min_reached
        /\ ~hist[i].pass.min_reached
        /\ hist[i].pass.end \in {"goal", "exceeded"}
        /\ QueueSize(drv[i].search_engine) > 0

\* the flag was raised after the loop, by the empty queue
C14_WitnessEmptied ==
    \E i \in DriverIds :
        /\ Constructed(i)
        /\ drv[i].search_engine.min_reached
        /\ ~hist[i].pass.min_reached
        /\ hist[i].pass.end = "exit"

(***************************************************************************)
(* C15.  get_stats() is the tuple of the four counters.  The penultimate   *)
(* statistics are what get_stats() was when the engine last returned a     *)
(* goal state, the pop of that goal counted, and zeros when it has not     *)
(* returned one since initialize(); a pass that returns none leaves them   *)
(* as they were.                                                           *)
(***************************************************************************)
EngineGoalCalls(i) == {k \in 1..Len(hist[i].eret) : hist[i].eret[k].state # NoneState}

LastGoalCall(i) == CHOOSE k \in EngineGoalCalls(i) : \A j \in EngineGoalCalls(i) : j <= k

\* the pops of calls 1..k that passed the cost bounds
VisitedUpTo(i, k) ==
    Cardinality({n \in 1..Len(hist[i].pops) :
                    hist[i].pops[n].visited /\ hist[i].pops[n].pass <= k})

C15_StatsAndSnapshot ==
    \A i \in DriverIds : (Constructed(i) /\ drv[i].pc = "idle") =>
        LET e == drv[i].search_engine
        IN /\ GetStats(e)[1] = VisitedUpTo(i, hist[i].passes)
           /\ GetStats(e)[3] <= GetStats(e)[2]
           /\ IF EngineGoalCalls(i) = {}
              THEN GetStatsPenultimate(e) = <<0, 0, 0, 0>>
              ELSE /\ GetStatsPenultimate(e) = hist[i].goal_stats
                   /\ GetStatsPenultimate(e)[1] = VisitedUpTo(i, LastGoalCall(i))

\* a goal was returned, then a pass that popped more states returned none
C15_Witness ==
    \E i \in DriverIds :
        /\ Constructed(i)
        /\ drv[i].pc = "idle"
        /\ EngineGoalCalls(i) # {}
        /\ LastGoalCall(i) < hist[i].passes
        /\ GetStats(drv[i].search_engine)[1] > GetStatsPenultimate(drv[i].search_engine)[1]
        /\ GetStatsPenultimate(drv[i].search_engine)[1] > 0

(***************************************************************************)
(* C16.  The first call of the driver's optimization_pass() returns the    *)
(* greedy goal state and its cost when the engine yields no state; every   *)
(* later call returns exactly what the engine returned.  An empty queue    *)
(* stays empty, and a call after the first that finds it empty returns     *)
(* none.                                                                   *)
(***************************************************************************)
DriverReturnsNow(i) == Len(hist[i].ret') = Len(hist[i].ret) + 1

GreedyResult(i) ==
    [state |-> drv[i].greedy_goal_state,
     cost |-> cut_optimization_cost_func(drv[i].greedy_goal_state, drv[i].func_args)]

NoneResult == [state |-> NoneState, cost |-> NoneCost]

FallbackStep(i) ==
    LET k == Len(hist[i].ret')
        e == drv[i].search_engine
    IN /\ Len(hist[i].eret') = Len(hist[i].ret')
       /\ DriverReturnsNow(i) =>
             /\ SubSeq(hist[i].ret', 1, k - 1) = hist[i].ret
             /\ hist[i].ret'[k] = IF k = 1 /\ hist[i].eret'[1] = NoneResult
                                  THEN GreedyResult(i)
                                  ELSE hist[i].eret'[k]
             /\ (k > 1 /\ QueueSize(e) = 0) => hist[i].ret'[k] = NoneResult
       /\ ~DriverReturnsNow(i) => hist[i].ret' = hist[i].ret
       /\ QueueSize(e) = 0 => QueueSize(e)' = 0

C16_GreedyOnlyOnFirstCall ==
    [][\A i \in DriverIds : (Constructed(i) /\ Constructed(i)') => FallbackStep(i)]_vars

\* the first call handed out the greedy state, the engine having yielded none,
\* and a later call, the queue empty, returned none
C16_Witness ==
    \E i \in DriverIds :
        /\ Constructed(i)
        /\ Len(hist[i].ret) >= 2
        /\ hist[i].eret[1] = NoneResult
        /\ hist[i].ret[1] = GreedyResult(i)
        /\ hist[i].ret[1].state # NoneState
        /\ hist[i].ret[Len(hist[i].ret)] = NoneResult
        /\ QueueSize(drv[i].search_engine) = 0

(***************************************************************************)
(* Circuits with a gate on three qubits.  The driver is constructed on     *)
(* them, and beside it an engine is used on its own: BestFirstSearch(...), *)
(* initialize([start_state], func_args), then optimization_pass(func_args) *)
(* call after call, with no greedy search before it.  call holds that      *)
(* engine, the end of its last pass and the state its last iteration       *)
(* popped.                                                                 *)
(***************************************************************************)
ArityGates == QubitPairs \cup {<<0, 1, 2>>}
ArityCircuits == UNION {[1..n -> ArityGates] : n \in 0..MaxGates}

InitArity ==
    /\ circuit \in ArityCircuits
    /\ qpu_width \in QpuWidths
    /\ seed = FirstSeed
    /\ max_backjumps = NoneInt
    /\ max_gamma = NoneInt
    /\ drv = [i \in DriverIds |-> [pc |-> "new"]]
    /\ hist = [i \in DriverIds |-> NewHist]
    /\ walk = NoWalk
    /\ call = NoCall

EngineInitialize ==
    /\ call = NoCall
    /\ \E g0 \in DefaultRng(seed) :
          LET fa == FuncArgs(circuit, max_gamma, qpu_width)
              start_state ==
                  InitialState(NumQubits, max_wire_cuts_circuit(fa.entangling_gates))
          IN call' = [op |-> "engine", pc |-> "idle", func_args |-> fa,
                      search_engine |->
                          Initialize(BestFirstSearchNew(seed, max_backjumps, FALSE, g0),
                                     <<start_state>>, fa),
                      passes |-> 0, end |-> "none",
                      popped |-> NoneState, before |-> {}]
    /\ UNCHANGED <<inputs, drv, hist, walk>>

EngineBeginPass ==
    /\ call.op = "engine"
    /\ call.pc = "idle"
    /\ call.passes < MaxPasses
    /\ call' = [call EXCEPT !.pc = "loop",
                            !.search_engine = EnterPass(@, call.func_args),
                            !.passes = @ + 1,
                            !.end = "running",
                            !.popped = NoneState,
                            !.before = {}]
    /\ UNCHANGED <<inputs, drv, hist, walk>>

\* one iteration; an exception of next_state_func ends the call like a return
EngineStep ==
    /\ call.op = "engine"
    /\ call.pc = "loop"
    /\ LoopCondition(call.search_engine)
    /\ LET r == LoopBody(call.search_engine, call.func_args)
       IN call' = [call EXCEPT !.search_engine = r.e,
                               !.pc = IF r.kind = "expand" THEN "loop" ELSE "idle",
                               !.end = IF r.kind = "expand" THEN "running" ELSE r.kind,
                               !.popped = r.state,
                               !.before = call.search_engine.pqueue]
    /\ UNCHANGED <<inputs, drv, hist, walk>>

EngineExitLoop ==
    /\ call.op = "engine"
    /\ call.pc = "loop"
    /\ ~LoopCondition(call.search_engine)
    /\ call' = [call EXCEPT !.search_engine = AfterLoop(@),
                            !.pc = "idle",
                            !.end = "exit"]
    /\ UNCHANGED <<inputs, drv, hist, walk>>

NextArity ==
    \/ Construct(1)
    \/ EngineInitialize
    \/ EngineBeginPass
    \/ EngineStep
    \/ EngineExitLoop

SpecArity == InitArity /\ [][NextArity]_vars

\* the gates of the circuit that do not act on exactly two qubits
WideGates(c) == {k \in 1..Len(c) : Len(c[k]) # 2}

\* the state stands before a gate that is not a two-qubit gate
BeforeWideGate(state) == (state.search_level + 1) \in WideGates(circuit)

\* the state has been led past a gate that is not a two-qubit gate
PastWideGate(state) == \E k \in WideGates(circuit) : k <= state.search_level

(***************************************************************************)
(* C17.  As stated, for the driver: the error of a gate on more than two   *)
(* qubits is not raised by the constructor, it waits for the pass that     *)
(* pops a state standing before the gate.                                  *)
(***************************************************************************)
C17_NotAtConstruction ==
    \A i \in DriverIds : drv[i].pc # "raised"

(***************************************************************************)
(* C17, what the code does.  next_state_func raises for a state standing   *)
(* before such a gate and returns no successor.  The constructor of the    *)
(* driver raises exactly when the circuit has such a gate, its greedy      *)
(* search meeting every gate, so the driver never starts a pass on such a  *)
(* circuit.  An engine used on its own raises in the pass, and in the      *)
(* iteration, that popped the state: the state has left the queue, nothing *)
(* was pushed, and no queued state is ever past such a gate.               *)
(***************************************************************************)
C17_RaisedByConstructorOrInPass ==
    /\ \A i \in DriverIds :
          drv[i].pc # "new" => (drv[i].pc = "raised" <=> WideGates(circuit) # {})
    /\ call.op = "engine" =>
          /\ \A x \in call.search_engine.pqueue : ~PastWideGate(x.state)
          /\ (call.pc = "idle" /\ call.popped # NoneState /\ call.end # "exceeded")
                => (call.end = "raise" <=>
                      /\ ~cut_optimization_goal_state_func(call.popped, call.func_args)
                      /\ BeforeWideGate(call.popped))
          /\ call.end = "raise" =>
                /\ call.pc = "idle"
                /\ \E x \in call.before :
                      /\ x.state = call.popped
                      /\ call.search_engine.pqueue = call.before \ {x}

\* the constructor of the driver has raised, and an engine run on its own has
\* raised in a later pass than its first, on popping a state before the gate
C17_Witness ==
    /\ drv[1].pc = "raised"
    /\ call.op = "engine"
    /\ call.end = "raise"
    /\ call.passes > 1
    /\ BeforeWideGate(call.popped)

(***************************************************************************)
(* DeviceConstraints (quantum_device_constraints.py).  call holds the      *)
(* arguments of one construction, by the constructor or by from_dict, the  *)
(* instance it leaves, and the value get_qpu_width() returned.             *)
(***************************************************************************)
MaxDeviceValue == 5

DeviceValues == (0 - MaxDeviceValue)..MaxDeviceValue

\* a check that rejects the pair only when both numbers are below one
PostInitRaises_Both(qubits_per_QPU, num_QPUs) == qubits_per_QPU < 1 /\ num_QPUs < 1

\* __post_init__ raises ValueError
PostInitRaises(qubits_per_QPU, num_QPUs) == qubits_per_QPU < 1 \/ num_QPUs < 1

\* DeviceConstraints(qubits_per_QPU, num_QPUs): the instance, or none when raised
DeviceConstraintsNew(qubits_per_QPU, num_QPUs) ==
    IF PostInitRaises(qubits_per_QPU, num_QPUs) THEN [raised |-> TRUE]
    ELSE [raised |-> FALSE, qubits_per_QPU |-> qubits_per_QPU, num_QPUs |-> num_QPUs]

get_qpu_width(self) == self.qubits_per_QPU

InitDevice ==
    /\ circuit = << >>
    /\ qpu_width = 1
    /\ seed = FirstSeed
    /\ max_backjumps = NoneInt
    /\ max_gamma = NoneInt
    /\ drv = [i \in DriverIds |-> [pc |-> "new"]]
    /\ hist = [i \in DriverIds |-> NewHist]
    /\ walk = NoWalk
    /\ \E q \in DeviceValues, n \in DeviceValues :
          call = [op |-> "device", pc |-> "new", via |-> "none",
                  args |-> [qubits_per_QPU |-> q, num_QPUs |-> n],
                  self |-> [raised |-> FALSE], width |-> NoneInt]

DeviceBuilt(via) ==
    LET self == DeviceConstraintsNew(call.args.qubits_per_QPU, call.args.num_QPUs)
    IN [call EXCEPT !.pc = IF self.raised THEN "raised" ELSE "built",
                    !.via = via,
                    !.self = self]

DeviceConstruct ==
    /\ call.op = "device"
    /\ call.pc = "new"
    /\ call' = DeviceBuilt("init")
    /\ UNCHANGED <<inputs, drv, hist, walk>>

\* from_dict(options) is cls(**options)
DeviceFromDict ==
    /\ call.op = "device"
    /\ call.pc = "new"
    /\ call' = DeviceBuilt("from_dict")
    /\ UNCHANGED <<inputs, drv, hist, walk>>

DeviceGetQpuWidth ==
    /\ call.op = "device"
    /\ call.pc = "built"
    /\ call' = [call EXCEPT !.pc = "asked", !.width = get_qpu_width(call.self)]
    /\ UNCHANGED <<inputs, drv, hist, walk>>

NextDevice ==
    \/ DeviceConstruct
    \/ DeviceFromDict
    \/ DeviceGetQpuWidth

SpecDevice == InitDevice /\ [][NextDevice]_vars

(***************************************************************************)
(* C18.  The construction of DeviceConstraints raises exactly when         *)
(* qubits_per_QPU < 1 or num_QPUs < 1; get_qpu_width() of an instance that *)
(* was constructed is the qubits_per_QPU it was given, and is at least 1.  *)
(***************************************************************************)
C18_DeviceConstraints ==
    (call.op = "device" /\ call.pc # "new") =>
        /\ call.pc = "raised" <=> (call.args.qubits_per_QPU < 1 \/ call.args.num_QPUs < 1)
        /\ call.pc = "asked" =>
              /\ call.width = call.args.qubits_per_QPU
              /\ call.width >= 1

\* an instance with the least values allowed has answered get_qpu_width()
C18_Witness ==
    /\ call.op = "device"
    /\ call.pc = "asked"
    /\ call.args = [qubits_per_QPU |-> 1, num_QPUs |-> 1]
    /\ call.width = 1

\* one number below one is enough for the construction to raise
C18_WitnessRaised ==
    /\ call.op = "device"
    /\ call.pc = "raised"
    /\ call.args.qubits_per_QPU >= 1
    /\ call.args.num_QPUs = 0

(***************************************************************************)
(* BestFirstPriorityQueue on its own.  call holds the queue object q, the  *)
(* list `pushed` of every entry ever pushed with the number of clear()     *)
(* calls that preceded it, the operation done last, the list as it was     *)
(* before that operation and, for get(), the tuple returned.               *)
(***************************************************************************)
MaxPuts == 3
MaxClears == 1

QueueStates == {[isnone |-> FALSE, id |-> 1], [isnone |-> FALSE, id |-> 2]}
QueueDepths == {0, 1}
QueueCosts == {<<1, 1>>, <<3, 1>>}

InitQueue ==
    /\ circuit = << >>
    /\ qpu_width = 1
    /\ seed \in {NoneInt, FirstSeed}
    /\ max_backjumps = NoneInt
    /\ max_gamma = NoneInt
    /\ drv = [i \in DriverIds |-> [pc |-> "new"]]
    /\ hist = [i \in DriverIds |-> NewHist]
    /\ walk = NoWalk
    /\ \E g0 \in DefaultRng(seed) :
          call = [op |-> "queue", q |-> QueueNew(g0), pushed |-> << >>, clears |-> 0,
                  lastop |-> "new", before |-> {},
                  got |-> [state |-> NoneState, depth |-> NoneInt, cost |-> NoneCost]]

QPut ==
    /\ call.op = "queue"
    /\ call.q.unique < MaxPuts
    /\ \E state \in QueueStates, depth \in QueueDepths, cost \in QueueCosts :
       \E q \in Drawing(call.q, call.q.pqueue,
                         <<[cost |-> cost, neg_depth |-> 0 - depth]>>) :
          LET q2 == QueuePut(q, state, depth, cost)
              new == CHOOSE x \in q2.pqueue : x \notin call.q.pqueue
          IN call' = [call EXCEPT !.q = q2,
                                  !.pushed = Append(@, [entry |-> new, clears |-> call.clears]),
                                  !.lastop = "put",
                                  !.before = call.q.pqueue]
    /\ UNCHANGED <<inputs, drv, hist, walk>>

QGet ==
    /\ call.op = "queue"
    /\ LET r == QueueGet(call.q)
       IN call' = [call EXCEPT !.q = r.e,
                               !.lastop = "get",
                               !.before = call.q.pqueue,
                               !.got = [state |-> r.state, depth |-> r.depth,
                                        cost |-> r.cost]]
    /\ UNCHANGED <<inputs, drv, hist, walk>>

QClear ==
    /\ call.op = "queue"
    /\ call.clears < MaxClears
    /\ call' = [call EXCEPT !.q = QueueClear(@),
                            !.clears = @ + 1,
                            !.lastop = "clear",
                            !.before = call.q.pqueue]
    /\ UNCHANGED <<inputs, drv, hist, walk>>

NextQueue ==
    \/ QPut
    \/ QGet
    \/ QClear

SpecQueue == InitQueue /\ [][NextQueue]_vars

\* dictionary order on tuples of integers of one length
RECURSIVE LexLT(_, _, _)
LexLT(a, b, k) ==
    /\ k <= Len(a)
    /\ \/ a[k] < b[k]
       \/ (a[k] = b[k] /\ LexLT(a, b, k + 1))

\* the part of a pushed tuple that precedes the state, the cost written out
KeyPrefix(x) == <<x.cost[1], x.cost[2], x.neg_depth, x.rand, x.seq>>

(***************************************************************************)
(* C19.  get() on an empty queue returns (None, None, None) and changes    *)
(* nothing.  Otherwise it removes the one entry whose (cost, -depth, rand, *)
(* seq) is least in dictionary order and returns its state, its depth with *)
(* the sign restored and its cost: no queued entry has a smaller cost, and *)
(* none of the same cost has a greater depth.                              *)
(***************************************************************************)
C19_GetReturnsLeast ==
    (call.op = "queue" /\ call.lastop = "get") =>
        IF call.before = {}
        THEN /\ call.got = [state |-> NoneState, depth |-> NoneInt, cost |-> NoneCost]
             /\ call.q.pqueue = {}
        ELSE \E x \in call.before :
                /\ \A y \in call.before \ {x} : LexLT(KeyPrefix(x), KeyPrefix(y), 1)
                /\ call.q.pqueue = call.before \ {x}
                /\ call.got = [state |-> x.state, depth |-> 0 - x.neg_depth, cost |-> x.cost]
                /\ call.got.depth \in QueueDepths
                /\ \A y \in call.before :
                      /\ CostLE(call.got.cost, y.cost)
                      /\ y.cost = call.got.cost => (0 - y.neg_depth) <= call.got.depth

\* get() chose the deeper of two entries of the same least cost, pushed first
\* the shallower, and left a costlier entry behind
C19_Witness ==
    /\ call.op = "queue"
    /\ call.lastop = "get"
    /\ call.got.depth = 1
    /\ \E y \in call.before :
          /\ y.cost = call.got.cost
          /\ y.neg_depth = 0
          /\ \E x \in call.before : x.state = call.got.state /\ x.neg_depth = 0 - 1
                                      /\ y.seq < x.seq /\ y.rand < x.rand
    /\ \E z \in call.q.pqueue : CostLT(call.got.cost, z.cost)

\* get() on the empty queue
C19_WitnessEmpty ==
    /\ call.op = "queue"
    /\ call.lastop = "get"
    /\ call.before = {}
    /\ Len(call.pushed) > 0

(***************************************************************************)
(* C20.  The seq of the entries pushed on one queue strictly increases     *)
(* from one put to the next, a clear() in between or not, and the counter  *)
(* stands at the number of puts; so no two entries ever pushed agree on    *)
(* (cost, -depth, rand, seq), and the order of any two of them is decided  *)
(* before the state.                                                       *)
(***************************************************************************)
C20_KeyPrefixesDistinct ==
    call.op = "queue" =>
        /\ call.q.unique = Len(call.pushed)
        /\ \A j \in 1..Len(call.pushed) : call.pushed[j].entry.seq = j - 1
        /\ \A j, k \in 1..Len(call.pushed) :
              j < k =>
                /\ call.pushed[j].entry.seq < call.pushed[k].entry.seq
                /\ KeyPrefix(call.pushed[j].entry) # KeyPrefix(call.pushed[k].entry)
                /\ \/ LexLT(KeyPrefix(call.pushed[j].entry), KeyPrefix(call.pushed[k].entry), 1)
                   \/ LexLT(KeyPrefix(call.pushed[k].entry), KeyPrefix(call.pushed[j].entry), 1)

\* two entries of the same cost and depth, pushed before and after a clear()
C20_Witness ==
    /\ call.op = "queue"
    /\ \E j, k \in 1..Len(call.pushed) :
          /\ j < k
          /\ call.pushed[j].clears < call.pushed[k].clears
          /\ call.pushed[j].entry.cost = call.pushed[k].entry.cost
          /\ call.pushed[j].entry.neg_depth = call.pushed[k].entry.neg_depth
          /\ call.pushed[j].entry.state = call.pushed[k].entry.state

(***************************************************************************)
(* C28.  A step that expands a state popped at depth d: the successors are *)
(* those of next_state_func; the ones whose cost is at most the upper      *)
(* bound, equality included, or all of them when no bound is set, are      *)
(* pushed at depth d + 1 with their cost, the others are dropped; the      *)
(* generated count grows by the number of successors and the enqueued      *)
(* count by the number pushed.  No entry is pushed with a cost above the   *)
(* upper bound in force.                                                   *)
(***************************************************************************)
ExpandsNow(i) == PopsNow(i) /\ drv[i].pc' = "loop"

WithinUpperBound(e, cost) ==
    e.upperbound_cost = NoneCost \/ CostLE(cost, e.upperbound_cost)

ExpandStep(i) ==
    LET e == drv[i].search_engine
        e2 == drv[i].search_engine'
        fa == drv[i].func_args
        got == QueueGet(e)
        succ == cut_optimization_next_state_func(got.state, fa)
        kept == {k \in 1..Len(succ) :
                    WithinUpperBound(e, cut_optimization_cost_func(succ[k], fa))}
        new == e2.pqueue \ e.pqueue
    IN /\ e2.upperbound_cost = e.upperbound_cost
       /\ e2.pqueue = got.e.pqueue \cup new
       /\ Cardinality(new) = Cardinality(kept)
       /\ {x.state : x \in new} = {succ[k] : k \in kept}
       /\ \A x \in new :
             /\ x.neg_depth = 0 - (got.depth + 1)
             /\ x.cost = cut_optimization_cost_func(x.state, fa)
             /\ WithinUpperBound(e, x.cost)
       /\ e2.num_next_states = e.num_next_states + Len(succ)
       /\ e2.num_enqueues = e.num_enqueues + Cardinality(kept)

C28_ExpansionPrunesAboveUpperBound ==
    [][\A i \in DriverIds :
          /\ (Constructed(i) /\ Constructed(i)' /\ ExpandsNow(i)) => ExpandStep(i)
          /\ (Constructed(i) /\ Constructed(i)' /\ ~ExpandsNow(i)) =>
                drv[i].search_engine.pqueue' \subseteq drv[i].search_engine.pqueue]_vars

\* the last expansion pushed a successor whose cost equals the upper bound and
\* dropped one whose cost is above it
C28_Witness ==
    \E i \in DriverIds :
        /\ Constructed(i)
        /\ drv[i].pc = "loop"
        /\ hist[i].pass.pops > 0
        /\ LET e == drv[i].search_engine
               succ == hist[i].lastexp.succ
           IN /\ \E k \in 1..Len(succ) :
                    /\ cut_optimization_cost_func(succ[k], drv[i].func_args) = e.upperbound_cost
                    /\ \E x \in e.pqueue : x.state = succ[k]
              /\ \E k \in 1..Len(succ) :
                    /\ CostLT(e.upperbound_cost,
                              cut_optimization_cost_func(succ[k], drv[i].func_args))
                    /\ \A x \in e.pqueue : x.state # succ[k]

(***************************************************************************)
(* C29.  A state the engine returns had, when popped, a cost above neither *)
(* the min-cost bound nor the upper-bound cost.  A pop whose cost is above *)
(* either bound ends the pass with (None, None) at once: the state is gone *)
(* from the queue, and the visited and generated counts, the upper bound   *)
(* and the penultimate statistics are as before, whether or not the state  *)
(* is a goal.  Every other pop is counted as visited.                      *)
(***************************************************************************)
Exceeds(cost, bound) == bound # NoneCost /\ CostLT(bound, cost)

BoundsStep(i) ==
    LET e == drv[i].search_engine
        e2 == drv[i].search_engine'
        got == QueueGet(e)
        over == Exceeds(got.cost, e.mincost_bound) \/ Exceeds(got.cost, e.upperbound_cost)
        last == hist[i].eret'[Len(hist[i].eret')]
    IN /\ GoalReturnedNow(i) =>
             /\ PopsNow(i)
             /\ last = [state |-> got.state, cost |-> got.cost]
             /\ ~over
       /\ (PopsNow(i) /\ over) =>
             /\ Len(hist[i].eret') = Len(hist[i].eret) + 1
             /\ last = NoneResult
             /\ drv[i].pc' = "idle"
             /\ e2.pqueue = got.e.pqueue
             /\ e2.num_states_visited = e.num_states_visited
             /\ e2.num_next_states = e.num_next_states
             /\ e2.num_enqueues = e.num_enqueues
             /\ e2.num_backjumps = e.num_backjumps
             /\ e2.upperbound_cost = e.upperbound_cost
             /\ e2.penultimate_stats = e.penultimate_stats
       /\ (PopsNow(i) /\ ~over) => e2.num_states_visited = e.num_states_visited + 1

C29_BoundsCutThePass ==
    [][\A i \in DriverIds : (Constructed(i) /\ Constructed(i)') => BoundsStep(i)]_vars

\* a pass ended on popping a goal state above a bound, with states left in the
\* queue, after an earlier pass had returned a goal
C29_Witness ==
    \E i \in DriverIds :
        /\ Constructed(i)
        /\ drv[i].pc = "idle"
        /\ hist[i].pass.end = "exceeded"
        /\ Len(circuit) > 0
        /\ hist[i].pops[Len(hist[i].pops)].depth = Len(circuit)
        /\ ~hist[i].pops[Len(hist[i].pops)].visited
        /\ EngineGoalCalls(i) # {}
        /\ QueueSize(drv[i].search_engine) > 0

(***************************************************************************)
(* The driver called again and again, with no limit on the backjumps       *)
(* (stop_at_first_min is false in the driver): optimization_pass() may be  *)
(* called as long as states are queued, and MaxPasses times at least.      *)
(***************************************************************************)
InitRepeat ==
    /\ circuit \in Circuits
    /\ qpu_width \in QpuWidths
    /\ max_gamma \in MaxGammas
    /\ max_backjumps = NoneInt
    /\ seed = FirstSeed
    /\ drv = [i \in DriverIds |-> [pc |-> "new"]]
    /\ hist = [i \in DriverIds |-> NewHist]
    /\ walk = NoWalk
    /\ call = NoCall

BeginPassMore(i) ==
    /\ drv[i].pc = "idle"
    /\ hist[i].passes >= MaxPasses
    /\ QueueSize(drv[i].search_engine) > 0
    /\ drv' = [drv EXCEPT ![i].pc = "loop",
                          ![i].search_engine = EnterPass(@, drv[i].func_args)]
    /\ hist' = [hist EXCEPT ![i].passes = @ + 1,
                            ![i].pass = [backjumps |-> drv[i].search_engine.num_backjumps,
                                         min_reached |-> drv[i].search_engine.min_reached,
                                         min_by_pop |-> FALSE,
                                         pops |-> 0, end |-> "running"]]
    /\ UNCHANGED <<inputs, walk, call>>

NextRepeat ==
    \/ Construct(1)
    \/ BeginPass(1)
    \/ BeginPassMore(1)
    \/ StepExceeded(1)
    \/ StepGoal(1)
    \/ StepExpand(1)
    \/ ExitLoop(1)

SpecRepeat == InitRepeat /\ [][NextRepeat]_vars

\* the most successors one state can have: None, GateCut and a WireCut on either qubit
MaxSuccessors == 4

\* the number of states in a full search tree below a state at depth d, itself included
RECURSIVE SubtreeBound(_, _)
SubtreeBound(d, n) == IF d >= n THEN 1 ELSE 1 + MaxSuccessors * SubtreeBound(d + 1, n)

RECURSIVE SumOver(_, _)
SumOver(entries, n) ==
    IF entries = {} THEN 0
    ELSE LET x == CHOOSE y \in entries : TRUE
         IN SubtreeBound(0 - x.neg_depth, n) + SumOver(entries \ {x}, n)

\* a bound on the pops still to come: the search trees below the queued states
PopsToCome(i) == SumOver(drv[i].search_engine.pqueue, Len(circuit))

EngineOf(i) == drv[i].search_engine

Exhausted(i) ==
    /\ Constructed(i)
    /\ QueueSize(EngineOf(i)) = 0
    /\ EngineOf(i).min_reached

(***************************************************************************)
(* C30.  With no limit on the backjumps every call of optimization_pass()  *)
(* ends and the calls exhaust the search: every iteration pops a state and *)
(* lowers a natural number, the bound on the pops to come, which no other  *)
(* step raises; a call leaves the loop without a return only on an empty   *)
(* queue, and then min_reached is true; so a call that finds states queued *)
(* pops one, and the pops number at most the size of the full search tree. *)
(* A goal state popped within the min-cost bound and the upper bound is    *)
(* returned by that call, and no state is returned twice.  Once the queue  *)
(* is empty and min_reached true they stay so, and a call returns          *)
(* (None, None).                                                           *)
(***************************************************************************)
GoalOnceStep(i) ==
    LET e == EngineOf(i)
        got == QueueGet(e)
        over == Exceeds(got.cost, e.mincost_bound) \/ Exceeds(got.cost, e.upperbound_cost)
        last == hist[i].ret'[Len(hist[i].ret')]
    IN /\ (PopsNow(i) /\ ~over
            /\ cut_optimization_goal_state_func(got.state, drv[i].func_args)) =>
             /\ DriverReturnsNow(i)
             /\ last = [state |-> got.state, cost |-> got.cost]
       /\ (DriverReturnsNow(i) /\ last.state # NoneState) =>
             \A k \in 1..Len(hist[i].ret) : hist[i].ret[k].state # last.state
       /\ (DriverReturnsNow(i) /\ QueueSize(e) = 0 /\ Len(hist[i].ret) > 0) =>
             last = NoneResult
       /\ Exhausted(i) => Exhausted(i)'

TerminationStep(i) ==
    /\ PopsNow(i) => PopsToCome(i)' < PopsToCome(i)
    /\ PopsToCome(i)' <= PopsToCome(i)
    /\ PopsToCome(i)' >= 0
    /\ drv[i].pc = "loop" =>
          /\ drv[i].pc' = "loop" => PopsNow(i)
          /\ PassExitsNow(i) <=> QueueSize(EngineOf(i)) = 0
          /\ PassExitsNow(i) => Exhausted(i)'
    /\ Len(hist[i].pops') <= SubtreeBound(0, Len(circuit))

C30_EveryCallEndsAndSearchExhausts ==
    [][(Constructed(1) /\ Constructed(1)') =>
          (GoalOnceStep(1) /\ TerminationStep(1))]_vars

\* the search was exhausted by more calls than MaxPasses, after two goals, the
\* last call returning none
C30_Witness ==
    /\ Exhausted(1)
    /\ drv[1].pc = "idle"
    /\ hist[1].passes > MaxPasses
    /\ Cardinality(Returned(1)) >= 2
    /\ hist[1].ret[Len(hist[1].ret)] = NoneResult

(***************************************************************************)
(* C23.  A circuit whose only multi-qubit gate is one CNOT, on QPUs one    *)
(* qubit wide: the first call of the driver's optimization_pass() returns  *)
(* the goal with the action trail [(0, GateCut)], gamma 3 and greatest     *)
(* width 1, and every later call returns none.                             *)
(***************************************************************************)
SingleGateOnUnitWidth == Len(circuit) = 1 /\ qpu_width = 1

IsSingleGateCutGoal(r) ==
    /\ r.state # NoneState
    /\ Len(r.state.actions) = 1
    /\ r.state.actions[1][1] = 0
    /\ r.state.actions[1][2] = "GateCut"
    /\ LowerBoundGamma(r.state) = 3
    /\ UpperBoundGamma(r.state) = 3
    /\ GetMaxWidth(r.state) = 1
    /\ r.cost = <<3, 1>>

C23_SingleCnotOneGoal ==
    \A i \in DriverIds :
        (Constructed(i) /\ SingleGateOnUnitWidth) =>
            /\ drv[i].pc # "error"
            /\ \A k \in 1..Len(hist[i].ret) :
                  IF k = 1 THEN IsSingleGateCutGoal(hist[i].ret[1])
                  ELSE hist[i].ret[k] = NoneResult

\* with no limits set, the goal came from the engine's search, and two more
\* calls returned none
C23_Witness ==
    \E i \in DriverIds :
        /\ Constructed(i)
        /\ SingleGateOnUnitWidth
        /\ circuit[1] = <<0, 1>>
        /\ max_gamma = NoneInt
        /\ max_backjumps = NoneInt
        /\ Len(hist[i].ret) = 3
        /\ hist[i].eret[1] = hist[i].ret[1]
        /\ IsSingleGateCutGoal(hist[i].ret[1])
        /\ hist[i].ret[3] = NoneResult

\* ---------------------------------------------------------------------------
\* SimpleGateList and NameToIDMap (LO_gate_cut_optimizer/circuit_interface.py)
\* ---------------------------------------------------------------------------

\* bounds of the stand-alone SimpleGateList specification
MaxElements == 2
MaxInitNames == 2

\* A wire name is a hashable: a plain name, or the tuple ('cut', w) around
\* another wire name.  [base |-> b, cut |-> d] is b wrapped d times.
WireName(base, depth) == [base |-> base, cut |-> depth]

CutDepths == {0, 1, 2}

WireNames == {WireName(b, d) : b \in {"a", "b"}, d \in CutDepths}

ParentName(name) == [name EXCEPT !.cut = @ - 1]

BaseName(name) == [name EXCEPT !.cut = 0]

\* elements of an input circuit: a bare item that is neither list nor tuple,
\* and gates written [name, qubit, ...]
BareItem(item) == [islist |-> FALSE, name |-> item, qubits |-> << >>]

GateOn(name, qubits) == [islist |-> TRUE, name |-> name, qubits |-> qubits]

InputElements ==
    { BareItem("barrier"),
      GateOn("h", <<WireName("a", 0)>>),
      GateOn("cx", <<WireName("a", 0), WireName("b", 0)>>),
      GateOn("barrier", <<WireName("a", 0), WireName("b", 0)>>),
      GateOn("cx", <<WireName("b", 0), WireName("a", 1)>>),
      GateOn("ccx", <<WireName("b", 1), WireName("a", 0), WireName("a", 2)>>) }

InputCircuits ==
    UNION { [1..n -> InputElements] : n \in 0..MaxElements }

InitNameLists ==
    { s \in UNION { [1..n -> WireNames] : n \in 0..MaxInitNames } :
        \A i, j \in DOMAIN s : i # j => s[i] # s[j] }

\* NameToIDMap: item_dict and ID_dict are kept as lists of pairs in insertion
\* order, the order in which a dict hands out its keys
NameToIDMapEmpty == [next_ID |-> 0, item_dict |-> << >>, ID_dict |-> << >>]

HasItem(m, name) == \E i \in DOMAIN m.item_dict : m.item_dict[i][1] = name

HasID(m, id) == \E i \in DOMAIN m.ID_dict : m.ID_dict[i][1] = id

ItemID(m, name) ==
    m.item_dict[CHOOSE i \in DOMAIN m.item_dict : m.item_dict[i][1] = name][2]

RECURSIVE FreeID(_, _)
FreeID(m, id) == IF HasID(m, id) THEN FreeID(m, id + 1) ELSE id

\* a getID that hands out next_ID without looking whether it is taken
NameToIDMapGetID_NoSkip(m, name) ==
    IF HasItem(m, name) THEN m
    ELSE [next_ID |-> m.next_ID + 1,
          item_dict |-> Append(m.item_dict, <<name, m.next_ID>>),
          ID_dict |-> Append(m.ID_dict, <<m.next_ID, name>>)]

\* the map after getID(name); the value returned is ItemID of that map
NameToIDMapGetID(m, name) ==
    IF HasItem(m, name) THEN m
    ELSE LET id == FreeID(m, m.next_ID)
         IN  [next_ID |-> id + 1,
              item_dict |-> Append(m.item_dict, <<name, id>>),
              ID_dict |-> Append(m.ID_dict, <<id, name>>)]

RECURSIVE GetIDs(_, _)
GetIDs(m, names) ==
    IF names = << >> THEN m
    ELSE GetIDs(NameToIDMapGetID(m, Head(names)), Tail(names))

NameToIDMapNew(init_names) == GetIDs(NameToIDMapEmpty, init_names)

getItems(m) == [i \in DOMAIN m.item_dict |-> m.item_dict[i][1]]

getArraySizeNeeded(m) ==
    IF Len(m.item_dict) = 0 THEN 0
    ELSE 1 + (CHOOSE x \in {m.ID_dict[i][1] : i \in DOMAIN m.ID_dict} :
                 \A y \in {m.ID_dict[i][1] : i \in DOMAIN m.ID_dict} : y <= x)

\* SimpleGateList.__init__: the loop over the input circuit
RECURSIVE SimpleGateListLoop(_, _)
SimpleGateListLoop(sgl, input) ==
    IF input = << >> THEN sgl
    ELSE LET gate == Head(input)
             names == GetIDs(sgl.qubit_names, gate.qubits)
             gate_spec == [islist |-> gate.islist, name |-> gate.name,
                           qubits |-> [i \in DOMAIN gate.qubits |->
                                          ItemID(names, gate.qubits[i])]]
         IN  SimpleGateListLoop(
                 [sgl EXCEPT !.qubit_names = names,
                             !.circuit = Append(@, [spec |-> gate_spec, constraints |-> "None"]),
                             !.cut_type = Append(@, "None")],
                 Tail(input))

\* An element of the subcircuits list is a Python value: a wire ID (an int)
\* or a list of wire IDs.
WireItem(k) == [kind |-> "int", value |-> k]

WireList(wires) == [kind |-> "list", wires |-> wires]

\* list(list(range(num_qubits))): list() of a list is a copy of that list,
\* so the value is the list of the wire IDs themselves
SimpleGateListSubcircuits(num_qubits) ==
    [k \in 1..num_qubits |-> WireItem(k - 1)]

SimpleGateListNew(input_circuit, init_qubit_names) ==
    LET sgl == SimpleGateListLoop(
                   [qubit_names |-> NameToIDMapNew(init_qubit_names),
                    circuit |-> << >>, cut_type |-> << >>],
                   input_circuit)
    IN  [qubit_names |-> sgl.qubit_names, circuit |-> sgl.circuit,
         cut_type |-> sgl.cut_type,
         num_qubits |-> getArraySizeNeeded(sgl.qubit_names),
         subcircuits |-> SimpleGateListSubcircuits(getArraySizeNeeded(sgl.qubit_names))]

\* mutant: barriers written as lists count as gates
IsMultiQubitGate_WithBarriers(gate) ==
    gate.spec.islist /\ 1 + Len(gate.spec.qubits) > 2

\* the test of getMultiQubitGates: gate[0] is a list of more than two entries
\* whose first entry is not "barrier"
IsMultiQubitGate(gate) ==
    /\ gate.spec.islist
    /\ 1 + Len(gate.spec.qubits) > 2
    /\ gate.spec.name # "barrier"

RECURSIVE MultiQubitLoop(_, _, _)
MultiQubitLoop(circ, k, subcircuit) ==
    IF k >= Len(circ) THEN subcircuit
    ELSE MultiQubitLoop(circ, k + 1,
             IF IsMultiQubitGate(circ[k + 1])
             THEN Append(subcircuit, [index |-> k, spec |-> circ[k + 1].spec,
                                      constraints |-> circ[k + 1].constraints])
             ELSE subcircuit)

getMultiQubitGates(sgl) == MultiQubitLoop(sgl.circuit, 0, << >>)

\* sort keys are the floats id + p/q with q a power of two; they are kept
\* exactly as [int |-> id, num |-> p, den |-> q]
WholeKey(id) == [int |-> id, num |-> 0, den |-> 1]

KeyLT(x, y) ==
    \/ x.int < y.int
    \/ x.int = y.int /\ x.num * y.den < y.num * x.den

\* mutant: a cut wire is keyed one whole step after its parent
CutOrder_WholeStep(x) == [int |-> x.int + 1, num |-> x.num, den |-> x.den]

\* x_int + 0.5 * x_frac + 0.5
CutOrder(x) == [int |-> x.int, num |-> x.num + x.den, den |-> 2 * x.den]

\* sortOrder(name) on the map m; the lookup of the innermost name goes
\* through getID, which enters a name the map does not hold yet
RECURSIVE sortOrder(_, _)
sortOrder(m, name) ==
    IF name.cut > 0 THEN CutOrder(sortOrder(m, ParentName(name)))
    ELSE WholeKey(ItemID(NameToIDMapGetID(m, name), name))

\* list.sort(key = ...) is stable: a pair goes behind every pair whose key
\* is not larger
RECURSIVE InsertByKey(_, _)
InsertByKey(sorted, pair) ==
    IF sorted = << >> THEN <<pair>>
    ELSE IF KeyLT(pair[2], Head(sorted)[2]) THEN <<pair>> \o sorted
    ELSE <<Head(sorted)>> \o InsertByKey(Tail(sorted), pair)

RECURSIVE SortByKey(_, _)
SortByKey(sorted, pairs) ==
    IF pairs = << >> THEN sorted
    ELSE SortByKey(InsertByKey(sorted, Head(pairs)), Tail(pairs))

\* name_pairs of defaultWireNameMapping, built name by name, and the map
\* as getID leaves it
RECURSIVE NamePairs(_, _, _)
NamePairs(m, names, pairs) ==
    IF names = << >> THEN [qubit_names |-> m, name_pairs |-> pairs]
    ELSE NamePairs(NameToIDMapGetID(m, BaseName(Head(names))), Tail(names),
                   Append(pairs, <<Head(names), sortOrder(m, Head(names))>>))

\* the returned dict as the list of (name, number) in order of insertion
defaultWireNameMapping(sgl) ==
    LET built == NamePairs(sgl.qubit_names, getItems(sgl.qubit_names), << >>)
        sorted == SortByKey(<< >>, built.name_pairs)
    IN  [qubit_names |-> built.qubit_names,
         name_map |-> [k \in DOMAIN sorted |-> <<sorted[k][1], k - 1>>]]

\* string.ascii_uppercase, the head of the alphabet of the export
Alphabet ==
    <<"A", "B", "C", "D", "E", "F", "G", "H", "I", "J", "K", "L", "M",
      "N", "O", "P", "Q", "R", "S", "T", "U", "V", "W", "X", "Y", "Z">>

\* exportSubcircuitsAsString("default"): the wire map of makeWireMapping
\* (a KeyError when a name entered by sortOrder has no number), the loop
\* over the subcircuits (a TypeError on a subcircuit that is an int) and
\* the join (a TypeError when a wire got no letter).  qubit_names is the
\* name map as sortOrder left it.
exportSubcircuitsAsString(sgl) ==
    LET r == defaultWireNameMapping(sgl)
        m == r.qubit_names
        mapped == {r.name_map[i][1] : i \in DOMAIN r.name_map}
        NumberOf(name) ==
            r.name_map[CHOOSE i \in DOMAIN r.name_map : r.name_map[i][1] = name][2]
        wire_map == [id \in {m.ID_dict[i][1] : i \in DOMAIN m.ID_dict} |->
                        NumberOf(m.ID_dict[CHOOSE i \in DOMAIN m.ID_dict :
                                              m.ID_dict[i][1] = id][2])]
        n == Len(m.item_dict)
        Writers(p) == {k \in DOMAIN sgl.subcircuits :
                          \E w \in DOMAIN sgl.subcircuits[k].wires :
                              wire_map[sgl.subcircuits[k].wires[w]] = p}
        Latest(S) == CHOOSE k \in S : \A j \in S : j <= k
    IN  IF \E i \in DOMAIN m.ID_dict : m.ID_dict[i][2] \notin mapped
        THEN [raised |-> "KeyError", at |-> "makeWireMapping",
              value |-> << >>, qubit_names |-> m]
        ELSE IF \E k \in DOMAIN sgl.subcircuits : sgl.subcircuits[k].kind = "int"
        THEN [raised |-> "TypeError", at |-> "for wire in subcircuit",
              value |-> << >>, qubit_names |-> m]
        ELSE IF \E p \in 0..(n - 1) : Writers(p) = {}
        THEN [raised |-> "TypeError", at |-> "join",
              value |-> << >>, qubit_names |-> m]
        ELSE [raised |-> "none", at |-> "return",
              value |-> [p \in 1..n |-> Alphabet[Latest(Writers(p - 1))]],
              qubit_names |-> m]

InitGateList ==
    /\ circuit = << >>
    /\ qpu_width = 1
    /\ seed = FirstSeed
    /\ max_backjumps = NoneInt
    /\ max_gamma = NoneInt
    /\ drv = [i \in DriverIds |-> [pc |-> "new"]]
    /\ hist = [i \in DriverIds |-> NewHist]
    /\ walk = NoWalk
    /\ \E input \in InputCircuits, names \in InitNameLists :
          call = [op |-> "gatelist", pc |-> "new", input |-> input,
                  init_names |-> names, lastop |-> "none"]

GateListBuilt == call.op = "gatelist" /\ call.pc = "built"

GateListConstruct ==
    /\ call.op = "gatelist" /\ call.pc = "new"
    /\ call' = [op |-> "gatelist", pc |-> "built", input |-> call.input,
                init_names |-> call.init_names, lastop |-> "new",
                sgl |-> SimpleGateListNew(call.input, call.init_names),
                multi |-> << >>, wires |-> << >>, name_map |-> << >>,
                defined |-> FALSE, exported |-> [raised |-> "none", at |-> "none"]]
    /\ UNCHANGED <<circuit, qpu_width, seed, max_backjumps, max_gamma, drv, hist, walk>>

GateListGetMultiQubitGates ==
    /\ GateListBuilt
    /\ call' = [call EXCEPT !.lastop = "getMultiQubitGates",
                            !.multi = getMultiQubitGates(call.sgl)]
    /\ UNCHANGED <<circuit, qpu_width, seed, max_backjumps, max_gamma, drv, hist, walk>>

GateListDefaultWireNameMapping ==
    /\ GateListBuilt
    /\ LET r == defaultWireNameMapping(call.sgl)
       IN  call' = [call EXCEPT !.lastop = "defaultWireNameMapping",
                                !.wires = getItems(call.sgl.qubit_names),
                                !.name_map = r.name_map,
                                !.sgl.qubit_names = r.qubit_names]
    /\ UNCHANGED <<circuit, qpu_width, seed, max_backjumps, max_gamma, drv, hist, walk>>

\* the lists of lists of wire IDs handed to defineSubcircuits: the uncut
\* circuit as one subcircuit, or one subcircuit per wire
SubcircuitLists(num_qubits) ==
    { <<WireList([k \in 1..num_qubits |-> k - 1])>>,
      [k \in 1..num_qubits |-> WireList(<<k - 1>>)] }

GateListDefineSubcircuits ==
    /\ GateListBuilt
    /\ \E list_of_list_of_wires \in SubcircuitLists(call.sgl.num_qubits) :
          call' = [call EXCEPT !.lastop = "defineSubcircuits",
                               !.defined = TRUE,
                               !.sgl.subcircuits = list_of_list_of_wires]
    /\ UNCHANGED <<circuit, qpu_width, seed, max_backjumps, max_gamma, drv, hist, walk>>

\* insertGateCut(gate_ID, cut_type): new_gate_ID_map is the identity, no
\* method changes it; "LO" is the one cut type of this release
GateListInsertGateCut ==
    /\ GateListBuilt
    /\ \E gate_ID \in 0..(Len(call.sgl.circuit) - 1) :
          LET gate_pos == gate_ID
          IN  call' = [call EXCEPT !.lastop = "insertGateCut",
                                   !.sgl.cut_type[gate_pos + 1] = "LO"]
    /\ UNCHANGED <<circuit, qpu_width, seed, max_backjumps, max_gamma, drv, hist, walk>>

GateListExportSubcircuits ==
    /\ GateListBuilt
    /\ LET r == exportSubcircuitsAsString(call.sgl)
       IN  call' = [call EXCEPT !.lastop = "exportSubcircuitsAsString",
                                !.exported = [raised |-> r.raised, at |-> r.at,
                                              value |-> r.value],
                                !.sgl.qubit_names = r.qubit_names]
    /\ UNCHANGED <<circuit, qpu_width, seed, max_backjumps, max_gamma, drv, hist, walk>>

NextGateList ==
    \/ GateListConstruct
    \/ GateListGetMultiQubitGates
    \/ GateListDefaultWireNameMapping

SpecGateList == InitGateList /\ [][NextGateList]_vars

\* the cut circuit of a gate list: gates cut, subcircuits defined and exported
\* in any order
NextSubcircuits ==
    \/ GateListConstruct
    \/ GateListInsertGateCut
    \/ GateListDefineSubcircuits
    \/ GateListExportSubcircuits

SpecSubcircuits == InitGateList /\ [][NextSubcircuits]_vars

IsGateOnSeveralQubits(element) ==
    element.islist /\ Len(element.qubits) >= 2 /\ element.name # "barrier"

\* C21: getMultiQubitGates() returns exactly the elements of the circuit that
\* are gates on two or more qubits and not barriers, in their original order,
\* each as [index, gate_spec, constraints] where index is the position of the
\* element in the whole circuit list, single-qubit gates and barriers counted.
C21_MultiQubitGatesKeepCircuitIndex ==
    (GateListBuilt /\ call.lastop = "getMultiQubitGates") =>
        /\ \A i, j \in DOMAIN call.multi :
              i < j => call.multi[i].index < call.multi[j].index
        /\ {call.multi[i].index : i \in DOMAIN call.multi}
              = {k \in 0..(Len(call.input) - 1) : IsGateOnSeveralQubits(call.input[k + 1])}
        /\ \A i \in DOMAIN call.multi :
              LET k == call.multi[i].index
                  element == call.input[k + 1]
              IN  /\ call.multi[i].spec = call.sgl.circuit[k + 1].spec
                  /\ call.multi[i].spec.name = element.name
                  /\ call.multi[i].spec.qubits
                        = [q \in DOMAIN element.qubits |->
                              ItemID(call.sgl.qubit_names, element.qubits[q])]
                  /\ call.multi[i].constraints = "None"

\* a list-form barrier comes first and is skipped, so the one gate returned
\* carries index 1 although it is first in the result
C21_Witness ==
    /\ GateListBuilt
    /\ call.lastop = "getMultiQubitGates"
    /\ Len(call.input) = 2
    /\ call.input[1] = GateOn("barrier", <<WireName("a", 0), WireName("b", 0)>>)
    /\ call.input[2].name = "cx"
    /\ Len(call.multi) = 1
    /\ call.multi[1].index = 1

WireNumber(name_map, name) ==
    name_map[CHOOSE i \in DOMAIN name_map : name_map[i][1] = name][2]

\* the order the sort key induces: by the ID of the innermost name, then by
\* the number of cuts around it
KeyOrderLT(m, x, y) ==
    \/ ItemID(m, BaseName(x)) < ItemID(m, BaseName(y))
    \/ ItemID(m, BaseName(x)) = ItemID(m, BaseName(y)) /\ x.cut < y.cut

\* C22: defaultWireNameMapping() maps the wire names bijectively onto 0..n-1
\* in sort-key order, and every cut wire ('cut', w) receives the number
\* immediately following the number of its parent wire w.
C22_CutWireFollowsParent ==
    (GateListBuilt /\ call.lastop = "defaultWireNameMapping") =>
        LET n == Len(call.wires)
            wires == {call.wires[i] : i \in DOMAIN call.wires}
        IN  /\ Len(call.name_map) = n
            /\ {call.name_map[i][1] : i \in DOMAIN call.name_map} = wires
            /\ {call.name_map[i][2] : i \in DOMAIN call.name_map} = 0..(n - 1)
            /\ \A x, y \in wires :
                  KeyOrderLT(call.sgl.qubit_names, x, y) =>
                      WireNumber(call.name_map, x) < WireNumber(call.name_map, y)
            /\ \A x \in wires :
                  (x.cut > 0 /\ ParentName(x) \in wires) =>
                      WireNumber(call.name_map, x)
                          = WireNumber(call.name_map, ParentName(x)) + 1

\* wires a, b and ('cut', a) hold IDs 0, 1, 2: the cut wire is numbered 1,
\* between its parent and b
C22_Witness ==
    /\ GateListBuilt
    /\ call.lastop = "defaultWireNameMapping"
    /\ Len(call.wires) = 3
    /\ ItemID(call.sgl.qubit_names, WireName("a", 0)) = 0
    /\ ItemID(call.sgl.qubit_names, WireName("b", 0)) = 1
    /\ ItemID(call.sgl.qubit_names, WireName("a", 1)) = 2
    /\ WireNumber(call.name_map, WireName("a", 0)) = 0
    /\ WireNumber(call.name_map, WireName("a", 1)) = 1
    /\ WireNumber(call.name_map, WireName("b", 0)) = 2

\* ---------------------------------------------------------------------------
\* transform_to_move (cutting/qpd/cut_wire_to_move.py)
\* ---------------------------------------------------------------------------

\* bound of the stand-alone transform_to_move specification
MaxInstructions == 4

QubitCounts == {2, 3}

Instruction(name, qubits) == [name |-> name, qubits |-> qubits]

\* the instructions of an input circuit on n qubits
InstructionsOn(n) ==
    {Instruction("cut_wire", <<w>>) : w \in 0..(n - 1)}
        \cup {Instruction("h", <<w>>) : w \in 0..(n - 1)}
        \cup {Instruction("cx", <<q[1], q[2]>>) :
                 q \in {r \in (0..(n - 1)) \X (0..(n - 1)) : r[1] < r[2]}}

MoveCircuits(n) ==
    UNION { [1..k -> InstructionsOn(n)] : k \in 0..MaxInstructions }

IsCutWire(instruction) == instruction.name = "cut_wire"

\* circuit.get_instructions("cut_wire") mapped to the index of the cut qubit
CutWireIndex(data) ==
    LET cuts == SelectSeq(data, IsCutWire)
    IN  [i \in DOMAIN cuts |-> cuts[i].qubits[1]]

RECURSIVE RunLength(_, _)
RunLength(s, key) ==
    IF s = << >> \/ Head(s) # key THEN 0 ELSE 1 + RunLength(Tail(s), key)

\* {key: len(list(group)) for key, group in groupby(cut_wire_index)}: groupby
\* opens a new group whenever the key changes, and a key met again replaces its
\* entry in the dict.  freq[w] = 0 stands for a key that is absent.
RECURSIVE CutWireFreq(_, _)
CutWireFreq(cut_wire_index, freq) ==
    IF cut_wire_index = << >> THEN freq
    ELSE LET key == Head(cut_wire_index)
             n == RunLength(cut_wire_index, key)
         IN  CutWireFreq(SubSeq(cut_wire_index, n + 1, Len(cut_wire_index)),
                         [freq EXCEPT ![key] = n])

OriginalQubit(index) == [new |-> FALSE, index |-> index]

NewQubit == [new |-> TRUE, index |-> NoneInt]

\* the loop of _circuit_structure_mapping; mapping[index + 1] is mapping[index]
RECURSIVE StructureLoop(_, _, _, _, _)
StructureLoop(n, freq, index, mapping, bits) ==
    IF index >= n THEN [mapping |-> mapping, bits |-> bits]
    ELSE StructureLoop(n, freq, index + 1,
             [i \in 1..n |-> IF i > index + 1 THEN mapping[i] + freq[index]
                             ELSE mapping[i]],
             bits \o [j \in 1..freq[index] |-> NewQubit] \o <<OriginalQubit(index)>>)

circuit_structure_mapping(n, data) ==
    StructureLoop(n, CutWireFreq(CutWireIndex(data), [w \in 0..(n - 1) |-> 0]),
                  0, [i \in 1..n |-> i - 1], << >>)

\* the loop of transform_to_move.  compose() on a qubit index the new circuit
\* does not have, or on a list that names one qubit twice, raises qiskit's
\* CircuitError.  acts collects (input wire, output qubit) for every qubit
\* an instruction of the wire is applied to.
RECURSIVE MoveLoop(_, _)
MoveLoop(data, out) ==
    IF data = << >> \/ out.status # "returned" THEN out
    ELSE LET instructions == Head(data)
             gate_index == instructions.qubits
             p == out.mapping[gate_index[1] + 1]
             qubits == [i \in DOMAIN gate_index |-> out.mapping[gate_index[i] + 1]]
         IN  IF IsCutWire(instructions)
             THEN IF p + 1 >= Len(out.bits)
                  THEN [out EXCEPT !.status = "CircuitError"]
                  ELSE MoveLoop(Tail(data),
                           [out EXCEPT !.data = Append(@, Instruction("move", <<p, p + 1>>)),
                                       !.mapping[gate_index[1] + 1] = p + 1,
                                       !.acts = @ \cup {<<gate_index[1], p>>,
                                                        <<gate_index[1], p + 1>>}])
             ELSE IF \/ \E i \in DOMAIN qubits : qubits[i] >= Len(out.bits)
                     \/ \E i, j \in DOMAIN qubits : i # j /\ qubits[i] = qubits[j]
                  THEN [out EXCEPT !.status = "CircuitError"]
                  ELSE MoveLoop(Tail(data),
                           [out EXCEPT !.data = Append(@, Instruction(instructions.name, qubits)),
                                       !.acts = @ \cup {<<gate_index[i], qubits[i]>> :
                                                           i \in DOMAIN gate_index}])

transform_to_move(n, data) ==
    LET structure == circuit_structure_mapping(n, data)
    IN  MoveLoop(data, [status |-> "returned", bits |-> structure.bits,
                        mapping |-> structure.mapping, data |-> << >>, acts |-> {}])

InitMove ==
    /\ circuit = << >>
    /\ qpu_width = 1
    /\ seed = FirstSeed
    /\ max_backjumps = NoneInt
    /\ max_gamma = NoneInt
    /\ drv = [i \in DriverIds |-> [pc |-> "new"]]
    /\ hist = [i \in DriverIds |-> NewHist]
    /\ walk = NoWalk
    /\ \E n \in QubitCounts : \E data \in MoveCircuits(n) :
          call = [op |-> "transform_to_move", pc |-> "called",
                  num_qubits |-> n, data |-> data]

TransformToMove ==
    /\ call.op = "transform_to_move" /\ call.pc = "called"
    /\ call' = [op |-> "transform_to_move", pc |-> "done",
                num_qubits |-> call.num_qubits, data |-> call.data,
                out |-> transform_to_move(call.num_qubits, call.data)]
    /\ UNCHANGED <<circuit, qpu_width, seed, max_backjumps, max_gamma, drv, hist, walk>>

NextMove == TransformToMove

SpecMove == InitMove /\ [][NextMove]_vars

MoveDone == call.op = "transform_to_move" /\ call.pc = "done"

HasCutWire(data) == \E i \in DOMAIN data : IsCutWire(data[i])

\* the number of cut_wire instructions of data on the wires of a set
CutCount(data, wires) ==
    Cardinality({i \in DOMAIN data : IsCutWire(data[i]) /\ data[i].qubits[1] \in wires})

\* where instruction k of the input finds wire w: behind the qubits of the
\* wires below it and their cuts, moved on by each earlier cut of w
PositionOf(data, k, w) ==
    w + CutCount(data, 0..(w - 1)) + CutCount(SubSeq(data, 1, k - 1), {w})

\* the cuts of one wire are not separated by a cut of another wire
CutsGrouped(data) ==
    LET cut_wire_index == CutWireIndex(data)
    IN  \A i, j, k \in DOMAIN cut_wire_index :
            (i < j /\ j < k /\ cut_wire_index[i] = cut_wire_index[k])
                => cut_wire_index[j] = cut_wire_index[i]

MovesFollowWires ==
    /\ call.out.status = "returned"
    /\ Len(call.out.bits) = call.num_qubits + CutCount(call.data, 0..(call.num_qubits - 1))
    /\ Len(call.out.data) = Len(call.data)
    /\ \A k \in DOMAIN call.data :
          LET p == PositionOf(call.data, k, call.data[k].qubits[1])
          IN  IF IsCutWire(call.data[k])
              THEN call.out.data[k] = Instruction("move", <<p, p + 1>>)
              ELSE call.out.data[k] =
                      Instruction(call.data[k].name,
                          [i \in DOMAIN call.data[k].qubits |->
                              PositionOf(call.data, k, call.data[k].qubits[i])])
    /\ \A x, y \in call.out.acts : x[2] = y[2] => x[1] = y[1]

\* C24: transform_to_move returns a circuit of exactly n + c qubits whose
\* instructions keep the original order, every cut_wire on a wire at output
\* position p replaced by a Move on (p, p+1) after which the wire's later
\* instructions act on p+1, the other instructions applied to the current
\* positions of their wires, and no two input wires ever acting on the same
\* output qubit, for any interleaving of cut_wire instructions on different
\* wires.
C24_MovesFollowWiresForAnyInterleaving ==
    (MoveDone /\ HasCutWire(call.data)) => MovesFollowWires

\* what the code does give: the same for circuits whose cuts are grouped by wire
C24_MovesFollowWiresForGroupedCuts ==
    (MoveDone /\ HasCutWire(call.data) /\ CutsGrouped(call.data)) => MovesFollowWires

OriginalQubitsShifted ==
    /\ call.out.status = "returned"
    /\ \A i \in 0..(call.num_qubits - 1) :
          LET p == i + CutCount(call.data, 0..i)
              prev == IF i = 0 THEN 0 - 1 ELSE (i - 1) + CutCount(call.data, 0..(i - 1))
          IN  /\ p < Len(call.out.bits)
              /\ call.out.bits[p + 1] = OriginalQubit(i)
              /\ p - prev - 1 = CutCount(call.data, {i})
              /\ \A j \in (prev + 1)..(p - 1) : call.out.bits[j + 1] = NewQubit

\* C25: in the circuit transform_to_move returns, original qubit i is at
\* output index i + (number of cut_wire instructions on input wires 0..i);
\* the cut qubits of wire i stand directly before original qubit i and after
\* original qubit i-1.
C25_OriginalQubitShiftedByCuts ==
    (MoveDone /\ HasCutWire(call.data)) => OriginalQubitsShifted

C25_OriginalQubitShiftedByGroupedCuts ==
    (MoveDone /\ HasCutWire(call.data) /\ CutsGrouped(call.data)) => OriginalQubitsShifted

\* C26: transform_to_move raises ValueError when the input circuit contains
\* no cut_wire instruction.
C26_NoCutWireRaisesValueError ==
    (MoveDone /\ ~HasCutWire(call.data)) => call.out.status = "ValueError"

\* what the code does: a circuit without cut_wire comes back instruction by
\* instruction on the same qubits
C26_NoCutWireReturnsSameCircuit ==
    (MoveDone /\ ~HasCutWire(call.data)) =>
        /\ call.out.status = "returned"
        /\ call.out.data = call.data
        /\ call.out.bits = [i \in 1..call.num_qubits |-> OriginalQubit(i - 1)]

\* ---------------------------------------------------------------------------
\* execute_experiments (circuit_cutting/cutting_evaluation.py)
\* ---------------------------------------------------------------------------

\* bounds of the stand-alone execute_experiments specification
MaxLabel == 3
MaxSamples == 2
\* the most threads os.cpu_count() gives the pool
MaxThreads == 3

\* the circuits argument as the list of its partition labels in the order of
\* the dict, each label once
LabelLists ==
    { s \in UNION { [1..n -> 1..MaxLabel] : n \in 1..MaxLabel } :
        \A i, j \in DOMAIN s : i # j => s[i] # s[j] }

\* the backends argument: None, or a sequence of backends
BackendLists == { << >>, <<"b1">>, <<"b1", "b2">> }

\* sorted(circuits.keys())
RECURSIVE SortedLabels(_)
SortedLabels(labels) ==
    IF labels = {} THEN << >>
    ELSE LET least == CHOOSE x \in labels : \A y \in labels : x <= y
         IN  <<least>> \o SortedLabels(labels \ {least})

\* the sub-experiments of unique sample i: one list of circuits per partition,
\* partitions in the order of the sorted labels (one observable group each)
generate_cutting_experiments(labels, num_unique_samples) ==
    LET subcircuit_list == SortedLabels({labels[k] : k \in DOMAIN labels})
    IN  [i \in 1..num_unique_samples |->
            [p \in DOMAIN subcircuit_list |->
                <<[sample |-> i - 1, label |-> subcircuit_list[p]]>>]]

\* mutant: every partition runs on the first backend
get_rotating_backends_list_First(backends, num_partitions) ==
    LET given == IF backends = << >> THEN <<"AerSimulator">> ELSE backends
    IN  [p \in 1..num_partitions |-> given[1]]

\* [backends[i % len(backends)] for i in range(num_partitions)]
get_rotating_backends_list(backends, num_partitions) ==
    LET given == IF backends = << >> THEN <<"AerSimulator">> ELSE backends
    IN  [p \in 1..num_partitions |-> given[((p - 1) % Len(given)) + 1]]

\* the counts a backend returns for a batch, reshaped like the batch
run_experiments_batch(subexperiments, backend) ==
    [i \in DOMAIN subexperiments |->
        [j \in DOMAIN subexperiments[i] |->
            [experiment |-> subexperiments[i][j], backend |-> backend]]]

\* the chunksize starmap computes for n tasks on a pool of so many threads:
\* chunksize, extra = divmod(n, len(pool) * 4), one more when extra is not 0
Chunksize(n, processes) ==
    IF n = 0 THEN 0
    ELSE (n \div (processes * 4)) + (IF n % (processes * 4) = 0 THEN 0 ELSE 1)

\* the batch (from 1) that carries the task of partition p (from 1)
BatchOf(p, chunksize) == ((p - 1) \div chunksize) + 1

\* mutant: the results are taken in the order the threads finish
Starmap_AsCompleted(workers, order) ==
    [k \in DOMAIN order |-> workers[order[k]].counts]

\* pool.starmap hands back one result per entry of args, in the order of args
Starmap(workers, order) == [p \in DOMAIN workers |-> workers[p].counts]

InitExecute ==
    /\ circuit = << >>
    /\ qpu_width = 1
    /\ seed = FirstSeed
    /\ max_backjumps = NoneInt
    /\ max_gamma = NoneInt
    /\ drv = [i \in DriverIds |-> [pc |-> "new"]]
    /\ hist = [i \in DriverIds |-> NewHist]
    /\ walk = NoWalk
    /\ \E labels \in LabelLists, n \in 1..MaxSamples, backends \in BackendLists,
          cpu_count \in 1..MaxThreads :
          call = [op |-> "execute_experiments", pc |-> "called", labels |-> labels,
                  num_unique_samples |-> n, backends |-> backends,
                  cpu_count |-> cpu_count]

\* execute_experiments up to starmap: ThreadPool() starts os.cpu_count()
\* threads, and the tasks, one per partition, are queued in batches
ExecuteSubmit ==
    /\ call.op = "execute_experiments" /\ call.pc = "called"
    /\ LET subexperiments == generate_cutting_experiments(call.labels, call.num_unique_samples)
           num_partitions == Len(subexperiments[1])
           backends_repeated == get_rotating_backends_list(call.backends, num_partitions)
           chunksize == Chunksize(num_partitions, call.cpu_count)
       IN  call' = [op |-> "execute_experiments", pc |-> "pool", labels |-> call.labels,
                    num_unique_samples |-> call.num_unique_samples,
                    backends |-> call.backends,
                    cpu_count |-> call.cpu_count,
                    threads |-> call.cpu_count,
                    subexperiments |-> subexperiments,
                    workers |-> [p \in 1..num_partitions |->
                                    [pc |-> "queued",
                                     batch |-> BatchOf(p, chunksize),
                                     thread |-> 0,
                                     args |-> [subexperiments |->
                                                  [i \in DOMAIN subexperiments |-> subexperiments[i][p]],
                                               backend |-> backends_repeated[p]],
                                     counts |-> << >>]],
                    order |-> << >>,
                    counts |-> << >>]
    /\ UNCHANGED <<circuit, qpu_width, seed, max_backjumps, max_gamma, drv, hist, walk>>

\* thread t of the pool has no task in hand
ThreadIdle(t) ==
    \A p \in DOMAIN call.workers :
        call.workers[p].thread = t => call.workers[p].pc = "done"

\* thread t of the pool, idle, takes the next batch of the task queue
WorkerStart(t) ==
    /\ call.op = "execute_experiments" /\ call.pc = "pool"
    /\ t \in 1..call.threads
    /\ ThreadIdle(t)
    /\ \E b \in {call.workers[p].batch : p \in DOMAIN call.workers} :
          /\ \A p \in DOMAIN call.workers :
                call.workers[p].pc = "queued" <=> call.workers[p].batch >= b
          /\ call' = [call EXCEPT !.workers =
                         [p \in DOMAIN call.workers |->
                             IF call.workers[p].batch = b
                             THEN [call.workers[p] EXCEPT !.pc = "running", !.thread = t]
                             ELSE call.workers[p]]]
    /\ UNCHANGED <<circuit, qpu_width, seed, max_backjumps, max_gamma, drv, hist, walk>>

\* _run_experiments_batch returns for partition p, the first task left of the
\* batch its thread holds
WorkerFinish(p) ==
    /\ call.op = "execute_experiments" /\ call.pc = "pool"
    /\ p \in DOMAIN call.workers
    /\ call.workers[p].pc = "running"
    /\ \A q \in DOMAIN call.workers :
          (q < p /\ call.workers[q].batch = call.workers[p].batch)
              => call.workers[q].pc = "done"
    /\ call' = [call EXCEPT !.workers[p].pc = "done",
                            !.workers[p].counts =
                                run_experiments_batch(call.workers[p].args.subexperiments,
                                                      call.workers[p].args.backend),
                            !.order = Append(@, p)]
    /\ UNCHANGED <<circuit, qpu_width, seed, max_backjumps, max_gamma, drv, hist, walk>>

\* starmap returns once every task is done; the counts are reshaped
ExecuteReturn ==
    /\ call.op = "execute_experiments" /\ call.pc = "pool"
    /\ \A p \in DOMAIN call.workers : call.workers[p].pc = "done"
    /\ LET counts_by_partition == Starmap(call.workers, call.order)
       IN  call' = [call EXCEPT !.pc = "returned",
                                !.counts = [i \in 1..Len(call.subexperiments) |->
                                               [p \in DOMAIN counts_by_partition |->
                                                   counts_by_partition[p][i]]]]
    /\ UNCHANGED <<circuit, qpu_width, seed, max_backjumps, max_gamma, drv, hist, walk>>

NextExecute ==
    \/ ExecuteSubmit
    \/ \E t \in 1..MaxThreads : WorkerStart(t)
    \/ \E p \in 1..MaxLabel : WorkerFinish(p)
    \/ ExecuteReturn

SpecExecute == InitExecute /\ [][NextExecute]_vars

\* the label of partition p (from 0): exactly p labels are smaller
LabelOfPartition(labels, p) ==
    CHOOSE x \in {labels[k] : k \in DOMAIN labels} :
        Cardinality({y \in {labels[k] : k \in DOMAIN labels} : y < x}) = p

BackendOfPartition(backends, p) ==
    IF backends = << >> THEN "AerSimulator" ELSE backends[(p % Len(backends)) + 1]

\* every partition is run as one task by one thread of the pool, and the
\* results come back by partition whatever the order of completion
CountsByPartition ==
    /\ (call.op = "execute_experiments" /\ call.pc \in {"pool", "returned"}) =>
          \A p \in DOMAIN call.workers :
              /\ call.workers[p].args.backend = BackendOfPartition(call.backends, p - 1)
              /\ call.workers[p].args.subexperiments =
                    [i \in 1..call.num_unique_samples |->
                        <<[sample |-> i - 1, label |-> LabelOfPartition(call.labels, p - 1)]>>]
              /\ call.workers[p].pc = "queued" <=> call.workers[p].thread = 0
              /\ call.workers[p].thread \in 0..call.cpu_count
    /\ (call.op = "execute_experiments" /\ call.pc = "returned") =>
          /\ Len(call.order) = Len(call.labels)
          /\ Len(call.counts) = call.num_unique_samples
          /\ \A i \in 0..(call.num_unique_samples - 1) :
                /\ Len(call.counts[i + 1]) = Len(call.labels)
                /\ \A p \in 0..(Len(call.labels) - 1) :
                      call.counts[i + 1][p + 1] =
                          <<[experiment |-> [sample |-> i,
                                             label |-> LabelOfPartition(call.labels, p)],
                             backend |-> BackendOfPartition(call.backends, p)]>>

\* no thread of the pool has run, or is running, the tasks of two partitions
OwnWorkerThreads ==
    (call.op = "execute_experiments" /\ call.pc \in {"pool", "returned"}) =>
        \A p, q \in DOMAIN call.workers :
            (p # q /\ call.workers[p].thread # 0) =>
                call.workers[p].thread # call.workers[q].thread

\* C27: execute_experiments runs each partition's sub-experiments in a worker
\* thread of its own; for every order in which the threads finish,
\* counts[i][p] holds the counts of unique sample i on partition p, partitions
\* in sorted-label order, and all experiments of partition p run on
\* backends[p mod len(backends)].
C27_OwnThreadAndCountsByPartition == OwnWorkerThreads /\ CountsByPartition

\* what the code does give: one task for each partition, run by some thread of
\* a pool of os.cpu_count() threads, the counts by partition in sorted-label
\* order whatever the order of completion, each partition on its one backend
C27_CountsByPartitionWhateverTheOrder == CountsByPartition

\* a thread that had finished the task of one partition ran the task of another
C27_WitnessSharedThread ==
    /\ call.op = "execute_experiments"
    /\ call.pc = "returned"
    /\ call.cpu_count = 2
    /\ Len(call.labels) = 3
    /\ call.workers[1].thread = 1
    /\ call.workers[2].thread = 2
    /\ call.workers[3].thread = 2
    /\ call.order = <<2, 3, 1>>

\* three partitions given as 3, 1, 2 on two backends; the threads finished in
\* the order 2, 0, 1 and the call has returned
C27_Witness ==
    /\ call.op = "execute_experiments"
    /\ call.pc = "returned"
    /\ call.labels = <<3, 1, 2>>
    /\ call.backends = <<"b1", "b2">>
    /\ call.num_unique_samples = 2
    /\ call.cpu_count = 3
    /\ call.order = <<3, 1, 2>>
    /\ call.counts[2][3][1].experiment.label = 3
    /\ call.counts[2][3][1].backend = "b1"

(***************************************************************************)
(* The engine on its own, with stop_at_first_min chosen by the caller:     *)
(* BestFirstSearch(settings, functions, stop_at_first_min), initialize(),  *)
(* optimization_pass() call after call, and initialize() again.  call      *)
(* holds the engine, the engine as the running pass found it (entry), the  *)
(* pops of the pass and the pops since initialize().                       *)
(***************************************************************************)
MaxInits == 2

InitFlag ==
    /\ circuit \in Circuits
    /\ qpu_width \in QpuWidths
    /\ seed = FirstSeed
    /\ max_backjumps \in BackjumpLimits
    /\ max_gamma = NoneInt
    /\ drv = [i \in DriverIds |-> [pc |-> "new"]]
    /\ hist = [i \in DriverIds |-> NewHist]
    /\ walk = NoWalk
    /\ call = NoCall

\* the constructor followed by initialize([start_state], func_args)
FlagConstruct ==
    /\ call = NoCall
    /\ \E g0 \in DefaultRng(seed), stop_at_first_min \in BOOLEAN :
          LET fa == FuncArgs(circuit, max_gamma, qpu_width)
              start_state ==
                  InitialState(NumQubits, max_wire_cuts_circuit(fa.entangling_gates))
              e == Initialize(BestFirstSearchNew(seed, max_backjumps, stop_at_first_min, g0),
                              <<start_state>>, fa)
          IN call' = [op |-> "flag", pc |-> "idle", func_args |-> fa,
                      search_engine |-> e, entry |-> e,
                      passes |-> 0, end |-> "none", inits |-> 1,
                      passpops |-> 0, pops |-> 0]
    /\ UNCHANGED <<inputs, drv, hist, walk>>

\* initialize([start_state], func_args) on an engine that has been used
FlagInitialize ==
    /\ call.op = "flag"
    /\ call.pc = "idle"
    /\ call.passes > 0
    /\ call.inits < MaxInits
    /\ LET start_state ==
               InitialState(NumQubits,
                            max_wire_cuts_circuit(call.func_args.entangling_gates))
           e == Initialize(call.search_engine, <<start_state>>, call.func_args)
       IN call' = [call EXCEPT !.search_engine = e, !.entry = e,
                               !.passes = 0, !.end = "none", !.inits = @ + 1,
                               !.passpops = 0, !.pops = 0]
    /\ UNCHANGED <<inputs, drv, hist, walk>>

FlagBeginPass ==
    /\ call.op = "flag"
    /\ call.pc = "idle"
    /\ call.passes < MaxPasses
    /\ call' = [call EXCEPT !.pc = "loop",
                            !.entry = call.search_engine,
                            !.search_engine = EnterPass(@, call.func_args),
                            !.passes = @ + 1,
                            !.end = "running",
                            !.passpops = 0]
    /\ UNCHANGED <<inputs, drv, hist, walk>>

FlagStep ==
    /\ call.op = "flag"
    /\ call.pc = "loop"
    /\ LoopCondition(call.search_engine)
    /\ LET r == LoopBody(call.search_engine, call.func_args)
       IN call' = [call EXCEPT !.search_engine = r.e,
                               !.pc = IF r.kind = "expand" THEN "loop" ELSE "idle",
                               !.end = IF r.kind = "expand" THEN "running" ELSE r.kind,
                               !.passpops = @ + 1,
                               !.pops = @ + 1]
    /\ UNCHANGED <<inputs, drv, hist, walk>>

FlagExitLoop ==
    /\ call.op = "flag"
    /\ call.pc = "loop"
    /\ ~LoopCondition(call.search_engine)
    /\ call' = [call EXCEPT !.search_engine = AfterLoop(@),
                            !.pc = "idle",
                            !.end = "exit"]
    /\ UNCHANGED <<inputs, drv, hist, walk>>

NextFlag ==
    \/ FlagConstruct
    \/ FlagInitialize
    \/ FlagBeginPass
    \/ FlagStep
    \/ FlagExitLoop

SpecFlag == InitFlag /\ [][NextFlag]_vars

\* a pass is running or has ended on the engine held by call
InPass == call.op = "flag" /\ call.end # "none"

BackjumpsLeft(e) == e.max_backjumps = NoneInt \/ e.num_backjumps < e.max_backjumps

\* C31: with stop_at_first_min = true, once min_reached is true every later
\* optimization_pass() returns (None, None) without popping and leaves the
\* queue, the four counters, the penultimate snapshot and the upper-bound
\* cost unchanged; with stop_at_first_min = false the flag does not stop
\* the loop and a later pass pops.
C31_FlagStopsLaterPasses ==
    InPass =>
        /\ (call.entry.stop_at_first_min /\ call.entry.min_reached) =>
              /\ call.end \in {"running", "exit"}
              /\ call.passpops = 0
              /\ call.search_engine.pqueue = call.entry.pqueue
              /\ GetStats(call.search_engine) = GetStats(call.entry)
              /\ call.search_engine.penultimate_stats = call.entry.penultimate_stats
              /\ call.search_engine.upperbound_cost = call.entry.upperbound_cost
              /\ call.search_engine.min_reached
        /\ (~call.entry.stop_at_first_min /\ call.entry.min_reached
               /\ QueueSize(call.entry) > 0 /\ BackjumpsLeft(call.entry)
               /\ call.pc = "idle") =>
              call.passpops >= 1

\* the flag was set with states still queued, and the next call ended
\* without touching them
C31_Witness ==
    /\ InPass
    /\ call.pc = "idle"
    /\ call.entry.stop_at_first_min
    /\ call.entry.min_reached
    /\ QueueSize(call.entry) > 0
    /\ BackjumpsLeft(call.entry)
    /\ call.end = "exit"
    /\ QueueSize(call.search_engine) = QueueSize(call.entry)

\* without the flag, a call made after min_reached was set popped again
C31_WitnessKeepsPopping ==
    /\ InPass
    /\ call.pc = "idle"
    /\ ~call.entry.stop_at_first_min
    /\ call.entry.min_reached
    /\ QueueSize(call.entry) > 0
    /\ call.passpops >= 1

CountersOrdered(e, pops) ==
    /\ e.num_states_visited <= e.num_enqueues
    /\ e.num_enqueues <= e.num_next_states
    /\ e.num_backjumps <= e.num_states_visited
    /\ QueueSize(e) = e.num_enqueues - pops
    /\ QueueSize(e) <= e.num_enqueues - e.num_states_visited

\* a step of the engine other than initialize()
SameInitialization ==
    call.op = "flag" /\ call'.op = "flag" /\ call'.inits = call.inits

\* C38: in every reachable engine state visited <= enqueued <= generated and
\* backjumps <= visited, the queue size is enqueued minus the pops performed
\* (so qsize <= enqueued - visited), and none of the four counters decreases
\* between two initialize() calls.
C38_CountersOrderedAndMonotone ==
    /\ [](call.op = "flag" => CountersOrdered(call.search_engine, call.pops))
    /\ [][SameInitialization =>
             \A k \in 1..4 :
                 GetStats(call.search_engine)'[k] >= GetStats(call.search_engine)[k]]_vars

\* a pop was turned away by the bounds, a successor was pruned, a backjump
\* was counted and states are still queued, on an engine initialized twice
C38_Witness ==
    /\ call.op = "flag"
    /\ call.inits = 2
    /\ call.pops > call.search_engine.num_states_visited
    /\ call.search_engine.num_enqueues < call.search_engine.num_next_states
    /\ call.search_engine.num_backjumps >= 1
    /\ QueueSize(call.search_engine) > 0

(***************************************************************************)
(* The engine on its own again, built on search functions with or without  *)
(* an upper-bound function, with update_upperbound_cost(c) called between  *)
(* the passes.  Nothing seeds the bound here: it is unset from             *)
(* initialize() until a goal state or a caller sets it.  call also holds   *)
(* the last goal state returned, the last cost bound handed in and the     *)
(* bound as that call found it.                                            *)
(***************************************************************************)
\* the longest circuit given to the engine of this specification
MaxBoundGates == 1

InitBound ==
    /\ circuit \in {c \in Circuits : Len(c) <= MaxBoundGates}
    /\ qpu_width \in QpuWidths
    /\ seed = FirstSeed
    /\ max_backjumps = NoneInt
    /\ max_gamma = NoneInt
    /\ drv = [i \in DriverIds |-> [pc |-> "new"]]
    /\ hist = [i \in DriverIds |-> NewHist]
    /\ walk = NoWalk
    /\ call = NoCall

\* BestFirstSearch(settings, functions, stop_at_first_min) and initialize()
BoundConstruct ==
    /\ call = NoCall
    /\ \E g0 \in DefaultRng(seed), stop_at_first_min \in BOOLEAN,
          upperbound_cost_func \in {UpperBoundFunc, NoneFunc} :
          LET fa == FuncArgs(circuit, max_gamma, qpu_width)
              start_state ==
                  InitialState(NumQubits, max_wire_cuts_circuit(fa.entangling_gates))
              sq == [BestFirstSearchNew(seed, max_backjumps, stop_at_first_min, g0)
                        EXCEPT !.upperbound_cost_func = upperbound_cost_func]
              e == Initialize(sq, <<start_state>>, fa)
          IN call' = [op |-> "flag", pc |-> "idle", func_args |-> fa,
                      search_engine |-> e, entry |-> e,
                      passes |-> 0, end |-> "none", inits |-> 1,
                      passpops |-> 0, pops |-> 0,
                      goal |-> NoneState, updates |-> 0, update |-> NoneCost,
                      found |-> NoneCost]
    /\ UNCHANGED <<inputs, drv, hist, walk>>

\* one iteration of the loop, the goal state it returns kept
BoundStep ==
    /\ call.op = "flag"
    /\ call.pc = "loop"
    /\ LoopCondition(call.search_engine)
    /\ LET r == LoopBody(call.search_engine, call.func_args)
       IN call' = [call EXCEPT !.search_engine = r.e,
                               !.pc = IF r.kind = "expand" THEN "loop" ELSE "idle",
                               !.end = IF r.kind = "expand" THEN "running" ELSE r.kind,
                               !.passpops = @ + 1,
                               !.pops = @ + 1,
                               !.goal = IF r.kind = "goal" THEN r.state ELSE @,
                               !.found = IF r.kind = "goal"
                                         THEN call.search_engine.upperbound_cost ELSE @]
    /\ UNCHANGED <<inputs, drv, hist, walk>>

\* update_upperbound_cost(cost_bound), between two passes
BoundUpdate ==
    /\ call.op = "flag"
    /\ call.pc = "idle"
    /\ call.updates < MaxUpdates
    /\ \E c \in UpdateCosts :
          call' = [call EXCEPT !.search_engine = UpdateUpperboundCostOf(@, c),
                               !.updates = @ + 1,
                               !.update = c,
                               !.found = call.search_engine.upperbound_cost]
    /\ UNCHANGED <<inputs, drv, hist, walk>>

NextBound ==
    \/ BoundConstruct
    \/ FlagInitialize
    \/ FlagBeginPass
    \/ BoundStep
    \/ FlagExitLoop
    \/ BoundUpdate

SpecBound == InitBound /\ [][NextBound]_vars

\* the step returns a goal state
BoundGoalNow == call.pc = "loop" /\ call'.pc = "idle" /\ call'.end = "goal"

\* the step is a call of update_upperbound_cost
BoundUpdatedNow == call'.updates = call.updates + 1

\* the bound the engine's functions give a goal state
GoalBound(e, goal_state, func_args) ==
    IF e.upperbound_cost_func = NoneFunc
    THEN <<LowerBoundGamma(goal_state), GetMaxWidth(goal_state)>>
    ELSE <<UpperBoundGamma(goal_state), Inf>>

BoundStepOK ==
    LET e == call.search_engine
        ub == e.upperbound_cost
        ub2 == call'.search_engine.upperbound_cost
        c == call'.update
    IN /\ ub # NoneCost => (ub2 # NoneCost /\ CostLE(ub2, ub))
       /\ BoundGoalNow => ub2 = MinCost(ub, GoalBound(e, call'.goal, call.func_args))
       /\ BoundUpdatedNow =>
              ub2 = IF c # NoneCost /\ (ub = NoneCost \/ CostLT(c, ub)) THEN c ELSE ub
       /\ (~BoundGoalNow /\ ~BoundUpdatedNow) => ub2 = ub

\* C12: the engine's upper-bound cost never increases between two calls of
\* initialize(): a step that reaches a goal leaves it at the smaller of its
\* old value and upper_bound_cost_func(goal), cost_func(goal) when the engine
\* was given no upper-bound function; update_upperbound_cost(c) replaces it
\* exactly when it was unset or c is strictly smaller, and
\* update_upperbound_cost(None) and every other step leave it as it was.
C12_UpperBoundNeverIncreases ==
    [][(call.op = "flag" /\ call'.op = "flag" /\ call'.inits = call.inits)
          => BoundStepOK]_vars

\* an engine without an upper-bound function: update_upperbound_cost found the
\* bound unset and set it, and the goal state returned after it lowered the
\* bound to its cost, a pair with a finite width
C12_Witness ==
    /\ call.op = "flag"
    /\ call.search_engine.upperbound_cost_func = NoneFunc
    /\ call.updates = 1
    /\ call.update # NoneCost
    /\ call.end = "goal"
    /\ call.found = call.update
    /\ CostLT(call.search_engine.upperbound_cost, call.update)
    /\ call.search_engine.upperbound_cost =
           <<LowerBoundGamma(call.goal), GetMaxWidth(call.goal)>>

\* update_upperbound_cost(None) on an unset bound left it unset
C12_WitnessNoneOnUnset ==
    /\ call.op = "flag"
    /\ call.updates = 1
    /\ call.update = NoneCost
    /\ call.found = NoneCost
    /\ call.pc = "idle"
    /\ call.end \in {"none", "exit", "exceeded"}
    /\ call.search_engine.upperbound_cost = NoneCost

\* an update with a cost that is not strictly smaller left the bound of an
\* engine with an upper-bound function alone
C12_WitnessIgnored ==
    /\ call.op = "flag"
    /\ call.search_engine.upperbound_cost_func = UpperBoundFunc
    /\ call.updates = 1
    /\ call.update # NoneCost
    /\ call.found # NoneCost
    /\ call.pc = "idle"
    /\ call.end = "goal"
    /\ call.search_engine.upperbound_cost = call.found
    /\ CostLE(call.found, call.update)

\* the driver was constructed without an exception
Built(i) == drv[i].pc \notin {"new", "raised"}

\* C32: immediately after a CutOptimization driver is constructed for which
\* the greedy pre-pass found a goal, the engine's queue holds exactly the
\* fresh initial state, the upper-bound cost is (gamma_ub(greedy goal),
\* infinity), min_reached is false and the statistics (visited, generated,
\* enqueued, backjumps) are (0, 1, 1, 0).
C32_EngineAfterConstruction ==
    \A i \in DriverIds :
        (Built(i) /\ drv[i].greedy_goal_state # NoneState) =>
            LET e == hist[i].start
            IN  /\ QueueSize(e) = 1
                /\ \A x \in e.pqueue :
                      /\ x.state = StartState(i)
                      /\ x.neg_depth = 0
                      /\ x.cost = cut_optimization_cost_func(StartState(i), drv[i].func_args)
                /\ e.upperbound_cost = <<UpperBoundGamma(drv[i].greedy_goal_state), Inf>>
                /\ ~e.min_reached
                /\ GetStats(e) = <<0, 1, 1, 0>>

\* a driver just constructed on a circuit whose greedy goal cuts a gate: the
\* seed bound is (3, infinity)
C32_Witness ==
    \E i \in DriverIds :
        /\ Built(i)
        /\ hist[i].passes = 0
        /\ drv[i].greedy_goal_state # NoneState
        /\ drv[i].search_engine = hist[i].start
        /\ hist[i].start.upperbound_cost = <<3, Inf>>
        /\ QueueSize(hist[i].start) = 1

\* the least k >= 0 with 2^(k+1) >= g + 1
LeastCuts(g) ==
    CHOOSE k \in 0..(g + 1) : 2 ^ (k + 1) >= g + 1 /\ (k = 0 \/ 2 ^ k < g + 1)

\* the sum of the arities of the multi-qubit gates of the driver's circuit
AritySum(i) ==
    LET gates == drv[i].func_args.entangling_gates
        sums[k \in 0..Len(gates)] ==
            IF k = 0 THEN 0 ELSE sums[k - 1] + Len(gates[k].gate.qubits)
    IN  sums[Len(gates)]

\* the wire-cut capacity of the state the constructor pushed
PushedCapacity(i) == (CHOOSE x \in hist[i].start.pqueue : TRUE).state.max_wire_cuts

(***************************************************************************)
(* The constructor's choice of the wire-cut capacity                       *)
(* (cut_optimization.py:242-258), on the drivers constructed and, beside   *)
(* them, on every outcome of the greedy pre-pass and every gamma limit:    *)
(* call holds a greedy result (none, or a goal of a given upper-bound      *)
(* gamma) and the capacity the constructor's lines compute from it.        *)
(***************************************************************************)
MaxGammaValue == 9

GreedyGammas == {NoneInt, 1, 3, 4, 9, 12, 16}

InitCapacity ==
    /\ circuit \in Circuits
    /\ qpu_width \in QpuWidths
    /\ seed = FirstSeed
    /\ max_backjumps = NoneInt
    /\ max_gamma \in {NoneInt} \cup 1..MaxGammaValue
    /\ drv = [i \in DriverIds |-> [pc |-> "new"]]
    /\ hist = [i \in DriverIds |-> NewHist]
    /\ walk = NoWalk
    /\ call = NoCall

\* lines 242-258 on a greedy result of upper-bound gamma g (none: NoneInt)
CapacityOf ==
    /\ call = NoCall
    /\ \E g \in GreedyGammas :
          LET fa == FuncArgs(circuit, max_gamma, qpu_width)
              greedy == IF g = NoneInt THEN NoneState
                        ELSE [InitialState(NumQubits,
                                           max_wire_cuts_circuit(fa.entangling_gates))
                                 EXCEPT !.gamma_UB = g]
          IN call' = [op |-> "capacity", func_args |-> fa, greedy_gamma |-> g,
                      max_wire_cuts |-> DriverMaxWireCuts(greedy, fa)]
    /\ UNCHANGED <<inputs, drv, hist, walk>>

NextCapacity ==
    \/ Construct(1)
    \/ CapacityOf

SpecCapacity == InitCapacity /\ [][NextCapacity]_vars

\* min(S, W(g)) with g the greedy gamma, else max_gamma, else S alone
ExpectedCapacity(s, greedy_gamma, gamma_limit) ==
    IF greedy_gamma # NoneInt THEN Min2(s, LeastCuts(greedy_gamma))
    ELSE IF gamma_limit # NoneInt THEN Min2(s, LeastCuts(gamma_limit))
    ELSE s

\* C33: the wire-cut capacity given to the full search's initial state is
\* min(S, W(g)), S the sum of the arities of the multi-qubit gates and W(g)
\* the least k >= 0 with 2^(k+1) >= g + 1; g is the greedy goal's upper-bound
\* gamma whenever a greedy goal exists, otherwise max_gamma when it is set,
\* and when neither exists the capacity is S.
C33_WireCutCapacity ==
    /\ \A i \in DriverIds :
          Built(i) =>
              PushedCapacity(i) =
                  ExpectedCapacity(AritySum(i),
                      IF drv[i].greedy_goal_state = NoneState THEN NoneInt
                      ELSE UpperBoundGamma(drv[i].greedy_goal_state),
                      drv[i].func_args.max_gamma)
    /\ call.op = "capacity" =>
          call.max_wire_cuts =
              ExpectedCapacity(2 * Len(circuit), call.greedy_gamma, max_gamma)

\* the greedy goal of a constructed driver cuts two gates (gamma_ub = 9) of
\* a circuit with S = 4: W(9) = 3 is the capacity of the state pushed
C33_Witness ==
    \E i \in DriverIds :
        /\ Built(i)
        /\ drv[i].greedy_goal_state # NoneState
        /\ UpperBoundGamma(drv[i].greedy_goal_state) = 9
        /\ AritySum(i) = 4
        /\ PushedCapacity(i) = 3

\* no greedy goal and max_gamma = 5: W(5) = 2 is below S = 4
C33_WitnessMaxGamma ==
    /\ call.op = "capacity"
    /\ call.greedy_gamma = NoneInt
    /\ max_gamma = 5
    /\ Len(circuit) = 2
    /\ call.max_wire_cuts = 2

\* neither a greedy goal nor a gamma limit: the capacity is S
C33_WitnessNeither ==
    /\ call.op = "capacity"
    /\ call.greedy_gamma = NoneInt
    /\ max_gamma = NoneInt
    /\ Len(circuit) = 3
    /\ call.max_wire_cuts = 6

\* a greedy goal of gamma 9 on a single gate: S = 2 is below W(9) = 3
C33_WitnessArities ==
    /\ call.op = "capacity"
    /\ call.greedy_gamma = 9
    /\ Len(circuit) = 1
    /\ call.max_wire_cuts = 2

NumGates(i) == Len(drv[i].func_args.entangling_gates)

\* C34: a state is treated as a goal exactly when search_level >= len(gates);
\* the engine tests this before expanding, so next_state is never invoked on
\* a state with search_level >= len(gates), every reachable state has
\* search_level <= len(gates), and for a circuit with no multi-qubit gates
\* the initial state itself is returned as the first goal.
C34_GoalAtLastLevel ==
    \A i \in DriverIds :
        Built(i) =>
            /\ \A x \in drv[i].search_engine.pqueue : x.state.search_level <= NumGates(i)
            /\ \A k \in DOMAIN hist[i].eret :
                  hist[i].eret[k].state # NoneState =>
                      hist[i].eret[k].state.search_level = NumGates(i)
            /\ \A k \in DOMAIN hist[i].ret :
                  hist[i].ret[k].state # NoneState =>
                      hist[i].ret[k].state.search_level = NumGates(i)
            /\ hist[i].lastexp.parent # NoneState =>
                  /\ hist[i].lastexp.parent.search_level < NumGates(i)
                  /\ \A k \in DOMAIN hist[i].lastexp.succ :
                        hist[i].lastexp.succ[k].search_level
                            = hist[i].lastexp.parent.search_level + 1
            /\ (NumGates(i) = 0 /\ Len(hist[i].ret) >= 1) =>
                  /\ hist[i].ret[1].state = StartState(i)
                  /\ (max_backjumps # 0 => hist[i].eret[1].state = StartState(i))

\* a state of the last level but one was expanded, and a goal of the last
\* level returned
C34_Witness ==
    \E i \in DriverIds :
        /\ Built(i)
        /\ NumGates(i) = 2
        /\ hist[i].lastexp.parent # NoneState
        /\ hist[i].lastexp.parent.search_level = 1
        /\ Len(hist[i].eret) >= 1
        /\ hist[i].eret[1].state # NoneState
        /\ hist[i].eret[1].state.search_level = 2

\* on the empty circuit the first call returned the initial state, popped
\* by the engine
C34_WitnessNoGates ==
    \E i \in DriverIds :
        /\ Built(i)
        /\ NumGates(i) = 0
        /\ Len(hist[i].eret) >= 1
        /\ hist[i].eret[1].state = StartState(i)
        /\ hist[i].ret[1].state = StartState(i)

\* the goal states still in the queue of a driver's engine or reachable
\* from a state in it
GoalsAhead(i) ==
    GoalsFrom({x.state : x \in drv[i].search_engine.pqueue}, drv[i].func_args)

\* a cost within the min-cost bound and strictly below the upper-bound cost
\* of an engine
Improves(e, cost) ==
    /\ e.mincost_bound = NoneCost \/ CostLE(cost, e.mincost_bound)
    /\ e.upperbound_cost = NoneCost \/ CostLT(cost, e.upperbound_cost)

\* C35: whenever minimum_reached() is true, max_backjumps being unlimited,
\* no goal state still in the queue or reachable from a queued state has a
\* cost within the min-cost bound and strictly below the upper-bound cost.
C35_MinimumReachedIsGlobal ==
    \A i \in DriverIds :
        (Built(i) /\ max_backjumps = NoneInt /\ drv[i].search_engine.min_reached) =>
            \A g \in GoalsAhead(i) :
                ~Improves(drv[i].search_engine,
                          cut_optimization_cost_func(g, drv[i].func_args))

\* the flag was raised by a pop while goal states are still ahead in the
\* queue, none of them an improvement
C35_Witness ==
    \E i \in DriverIds :
        /\ Built(i)
        /\ max_backjumps = NoneInt
        /\ drv[i].search_engine.min_reached
        /\ GoalsAhead(i) # {}
        /\ Len(hist[i].eret) >= 1
        /\ hist[i].eret[1].state # NoneState

\* C36: every state returned by the driver's optimization_pass(), a
\* greedy-fallback result included, respects the gamma budget: its
\* lower-bound gamma is at most max_gamma.
C36_ReturnedWithinGammaBudget ==
    \A i \in DriverIds :
        (Built(i) /\ max_gamma # NoneInt) =>
            \A r \in Returned(i) : LowerBoundGamma(r.state) <= max_gamma

\* what holds: the states the engine itself yields respect the budget
C36_EngineWithinGammaBudget ==
    \A i \in DriverIds :
        (Built(i) /\ max_gamma # NoneInt) =>
            \A k \in DOMAIN hist[i].eret :
                hist[i].eret[k].state # NoneState =>
                    LowerBoundGamma(hist[i].eret[k].state) <= max_gamma

\* the uncut circuit as a list of lists: one subcircuit holding every wire
UncutSubcircuits(num_qubits) ==
    <<WireList([k \in 1..num_qubits |-> k - 1])>>

\* exportSubcircuitsAsString() has just been called on a gate list on which
\* defineSubcircuits was never called
FreshExport ==
    /\ GateListBuilt
    /\ ~call.defined
    /\ call.lastop = "exportSubcircuitsAsString"

\* C37: a freshly constructed SimpleGateList, before any defineSubcircuits
\* call, holds subcircuits as a list of lists of wire IDs, one subcircuit
\* with all wires 0..num_qubits-1, so that exportSubcircuitsAsString()
\* succeeds and labels every wire with the same subcircuit letter.
C37_FreshSubcircuitsExport ==
    /\ (GateListBuilt /\ ~call.defined) =>
           call.sgl.subcircuits = UncutSubcircuits(call.sgl.num_qubits)
    /\ FreshExport =>
           /\ call.exported.raised = "none"
           /\ \A p \in DOMAIN call.exported.value : call.exported.value[p] = "A"

\* what holds: the fresh list is the flat list of wire IDs, on which the
\* export raises as soon as there is a wire; after defineSubcircuits with
\* the one subcircuit of all wires the export, when it returns, labels
\* every wire "A"
C37_FreshExportRaises ==
    /\ (GateListBuilt /\ ~call.defined) =>
           call.sgl.subcircuits = [k \in 1..call.sgl.num_qubits |-> WireItem(k - 1)]
    /\ (FreshExport /\ call.sgl.num_qubits >= 1) =>
           call.exported.raised \in {"TypeError", "KeyError"}
    /\ (FreshExport /\ call.sgl.num_qubits = 0) =>
           (call.exported.raised = "none" /\ call.exported.value = << >>)
    /\ ( /\ GateListBuilt
         /\ call.lastop = "exportSubcircuitsAsString"
         /\ call.sgl.subcircuits = UncutSubcircuits(call.sgl.num_qubits)
         /\ call.exported.raised = "none" ) =>
           \A p \in DOMAIN call.exported.value : call.exported.value[p] = "A"

\* a fresh export raised TypeError on two wires; an export after
\* defineSubcircuits returned "AA"
C37_WitnessRaised ==
    /\ FreshExport
    /\ call.sgl.num_qubits = 2
    /\ call.exported.raised = "TypeError"
    /\ call.exported.at = "for wire in subcircuit"

C37_WitnessDefined ==
    /\ GateListBuilt
    /\ call.defined
    /\ call.lastop = "exportSubcircuitsAsString"
    /\ call.exported.raised = "none"
    /\ call.exported.value = <<"A", "A">>

(***************************************************************************)
(* NameToIDMap on its own: getID and defineID called in any order.         *)
(***************************************************************************)
MaxID == 3
MaxCalls == 4

\* the names handed to getID and defineID
NameChoices == {WireName("a", 0), WireName("b", 0), WireName("a", 1)}

NameLists ==
    { s \in UNION { [1..n -> NameChoices] : n \in 0..MaxInitNames } :
        \A i, j \in DOMAIN s : i # j => s[i] # s[j] }

\* defineID(item_ID, item_name): the two asserts, then the two entries;
\* next_ID is left as it is
NameToIDMapDefineID(m, item_ID, item_name) ==
    IF HasID(m, item_ID) \/ HasItem(m, item_name)
    THEN [raised |-> "AssertionError", map |-> m]
    ELSE [raised |-> "none",
          map |-> [next_ID |-> m.next_ID,
                   item_dict |-> Append(m.item_dict, <<item_name, item_ID>>),
                   ID_dict |-> Append(m.ID_dict, <<item_ID, item_name>>)]]

InitNames ==
    /\ circuit = << >>
    /\ qpu_width = 1
    /\ seed = FirstSeed
    /\ max_backjumps = NoneInt
    /\ max_gamma = NoneInt
    /\ drv = [i \in DriverIds |-> [pc |-> "new"]]
    /\ hist = [i \in DriverIds |-> NewHist]
    /\ walk = NoWalk
    /\ \E names \in NameLists :
          call = [op |-> "names", pc |-> "new", init_names |-> names]

NamesBuilt == call.op = "names" /\ call.pc = "built"

NamesConstruct ==
    /\ call.op = "names" /\ call.pc = "new"
    /\ call' = [op |-> "names", pc |-> "built", lastop |-> "new",
                map |-> NameToIDMapNew(call.init_names),
                before |-> NameToIDMapEmpty,
                item_name |-> WireName("a", 0), item_ID |-> 0,
                returned |-> NoneInt, raised |-> "none", calls |-> 0]
    /\ UNCHANGED <<circuit, qpu_width, seed, max_backjumps, max_gamma, drv, hist, walk>>

NamesGetID ==
    /\ NamesBuilt
    /\ call.calls < MaxCalls
    /\ \E item_name \in NameChoices :
          LET m == NameToIDMapGetID(call.map, item_name)
          IN  call' = [call EXCEPT !.lastop = "getID", !.map = m,
                                   !.before = call.map,
                                   !.item_name = item_name,
                                   !.returned = ItemID(m, item_name),
                                   !.raised = "none",
                                   !.calls = @ + 1]
    /\ UNCHANGED <<circuit, qpu_width, seed, max_backjumps, max_gamma, drv, hist, walk>>

NamesDefineID ==
    /\ NamesBuilt
    /\ call.calls < MaxCalls
    /\ \E item_ID \in 0..MaxID, item_name \in NameChoices :
          LET r == NameToIDMapDefineID(call.map, item_ID, item_name)
          IN  call' = [call EXCEPT !.lastop = "defineID", !.map = r.map,
                                   !.before = call.map,
                                   !.item_name = item_name,
                                   !.item_ID = item_ID,
                                   !.returned = NoneInt,
                                   !.raised = r.raised,
                                   !.calls = @ + 1]
    /\ UNCHANGED <<circuit, qpu_width, seed, max_backjumps, max_gamma, drv, hist, walk>>

NextNames ==
    \/ NamesConstruct
    \/ NamesGetID
    \/ NamesDefineID

SpecNames == InitNames /\ [][NextNames]_vars

\* item_dict and ID_dict are inverse bijections
InverseBijections(m) ==
    /\ {<<m.item_dict[i][2], m.item_dict[i][1]>> : i \in DOMAIN m.item_dict}
           = {m.ID_dict[i] : i \in DOMAIN m.ID_dict}
    /\ \A i, j \in DOMAIN m.item_dict :
           i # j => /\ m.item_dict[i][1] # m.item_dict[j][1]
                    /\ m.item_dict[i][2] # m.item_dict[j][2]
    /\ \A i, j \in DOMAIN m.ID_dict :
           i # j => /\ m.ID_dict[i][1] # m.ID_dict[j][1]
                    /\ m.ID_dict[i][2] # m.ID_dict[j][2]

\* the IDs a map has assigned
AssignedIDs(m) == {m.ID_dict[i][1] : i \in DOMAIN m.ID_dict}

\* C39: after any sequence of getID and defineID calls, item_dict and
\* ID_dict are inverse bijections; getID of a known name returns its ID
\* without changing the map; getID of a new name never reuses an ID assigned
\* earlier by getID or defineID; a defineID whose ID or name is already
\* assigned fails without changing the map.
C39_NameToIDMapBijection ==
    NamesBuilt =>
        /\ InverseBijections(call.map)
        /\ (call.lastop = "getID" /\ HasItem(call.before, call.item_name)) =>
               /\ call.map = call.before
               /\ call.returned = ItemID(call.before, call.item_name)
        /\ (call.lastop = "getID" /\ ~HasItem(call.before, call.item_name)) =>
               /\ call.returned \notin AssignedIDs(call.before)
               /\ ItemID(call.map, call.item_name) = call.returned
               /\ AssignedIDs(call.map) = AssignedIDs(call.before) \cup {call.returned}
        /\ ( /\ call.lastop = "defineID"
             /\ HasID(call.before, call.item_ID) \/ HasItem(call.before, call.item_name) ) =>
               /\ call.raised = "AssertionError"
               /\ call.map = call.before
        /\ ( /\ call.lastop = "defineID"
             /\ ~HasID(call.before, call.item_ID)
             /\ ~HasItem(call.before, call.item_name) ) =>
               /\ call.raised = "none"
               /\ ItemID(call.map, call.item_name) = call.item_ID

\* getID of a new name stepped over an ID that defineID had taken
C39_Witness ==
    /\ NamesBuilt
    /\ call.lastop = "getID"
    /\ ~HasItem(call.before, call.item_name)
    /\ call.before.next_ID \in AssignedIDs(call.before)
    /\ call.returned > call.before.next_ID

\* a defineID of an assigned ID failed and left the map alone
C39_WitnessDefineFails ==
    /\ NamesBuilt
    /\ call.lastop = "defineID"
    /\ HasID(call.before, call.item_ID)
    /\ ~HasItem(call.before, call.item_name)
    /\ call.raised = "AssertionError"

\* getID of a known name, entered by defineID, returned its ID
C39_WitnessKnownName ==
    /\ NamesBuilt
    /\ call.lastop = "getID"
    /\ HasItem(call.before, call.item_name)
    /\ call.returned >= call.before.next_ID

====
